---- MODULE Spec2Model ----
(***************************************************************************)
(* Verification model of the SolarAutopilot decision pipeline:             *)
(*   - DecisionEngine / CommandPublisher (the engine's code is not part of *)
(*     the sources at hand; it is modelled from the design specification   *)
(*     and the command documentation src/unnamed/part_002),                *)
(*   - WarningMonitor      (services/warningService.js),                   *)
(*   - PriceProvider       (services/tibberService.js),                    *)
(*   - NotificationDispatcher (services/telegramService.js).               *)
(* Each component has its own specification (SpecEngine, SpecPublisher,    *)
(* SpecWarn*, SpecPrice, SpecPriceStore, SpecTelegram) over the shared     *)
(* variable list; SpecEvaluate and SpecPriceQuery apply the pure functions *)
(* (the decision rules, isPriceGood, getCheapestHours) to drawn inputs;    *)
(* Spec is the interleaving of all of them.                                *)
(***************************************************************************)
EXTENDS Integers, Sequences, FiniteSets, TLC

VARIABLES
    \* ---- DecisionEngine ----
    learnerModeActive,  \* user flag: commands are only sent while TRUE
    tickCount,          \* number of ticks started so far
    inflight,           \* evaluations in flight: set of [tick, snap, price]
    lastPublished,      \* [tick, mode] of the last published decision, or NoDecision
    firstDecision,      \* log record of the first tick evaluated, or NoDecision
    lastDecision,       \* log record of the latest tick evaluated, or NoDecision
    loggedCount,        \* number of decisions written to the decision log
    publishLog,         \* sequence of [tick, mode] handed to CommandPublisher
    \* ---- WarningMonitor ----
    now,                \* wall clock, minutes
    wFile,              \* content of warnings_config.json (when parsable)
    wFileOk,            \* the file can be read and parsed
    wDiskOk,            \* writeFileSync on the file succeeds
    wDefault,           \* arrays of the module-level defaultConfig object
    wSnapshot,          \* systemState of the last checkWarnings call
    wReturned,          \* events returned by the last checkWarnings call
    wRecent,            \* the newest MaxHistoryItems events triggered (observer)
    wTriggered,         \* number of events triggered so far (observer)
    wLastTrigger,       \* per rule id: <<time of its latest event>> (observer)
    wChecks,            \* number of checkWarnings calls so far
    wFaults,            \* number of file-system faults injected so far
    wCarried,           \* rule ids whose latest event predates the latest restart (observer)
    \* ---- PriceProvider ----
    tConfig,            \* this.config
    cache,              \* this.cache: [currentPrice, forecast]
    calls,              \* refreshData calls: sequence of call records
    influx,             \* durable store: points of tibber_prices and tibber_forecast
    influxCacheLoaded,  \* this.influxCacheLoaded
    restoring,          \* the pending initializeInfluxCache call, or <<>>
    \* ---- NotificationDispatcher ----
    tgConfig,           \* telegram config: [enabled, botToken, chatIds]
    bc,                 \* record of the last broadcastMessage call, or NoCall
    \* ---- CommandPublisher ----
    inverters,          \* configured inverter profiles: sequence of types
    published,          \* record of the last decision handed over, or NoPublish
    \* ---- read accessors ----
    query               \* record of the last pure query answered, or NoQuery

engineVars == <<learnerModeActive, tickCount, inflight, lastPublished,
                firstDecision, lastDecision, loggedCount, publishLog>>
warnVars   == <<now, wFile, wFileOk, wDiskOk, wDefault, wSnapshot, wReturned,
                wRecent, wTriggered, wLastTrigger, wChecks, wFaults,
                wCarried>>
priceVars  == <<tConfig, cache, calls, influx, influxCacheLoaded, restoring>>
tgVars     == <<tgConfig, bc>>
pubVars    == <<inverters, published>>
queryVars  == <<query>>
vars       == <<engineVars, warnVars, priceVars, tgVars, pubVars, queryVars>>

-----------------------------------------------------------------------------
(* Small helpers                                                           *)

Min(a, b) == IF a < b THEN a ELSE b

Range(s) == {s[i] : i \in 1..Len(s)}

RECURSIVE FilterSeq(_, _)
\* Array.prototype.filter with the predicate given as the set of kept values
FilterSeq(s, keep) ==
    IF s = <<>> THEN <<>>
    ELSE IF Head(s) \in keep THEN <<Head(s)>> \o FilterSeq(Tail(s), keep)
    ELSE FilterSeq(Tail(s), keep)

-----------------------------------------------------------------------------
(* Bounds of the model                                                     *)

MaxTicks    == 3    \* engine ticks per behaviour
MaxChecks   == 3    \* checkWarnings calls per behaviour
MaxCalls    == 2    \* refreshData calls per behaviour
MaxChats    == 2    \* configured chat ids
MaxFaults   == 2    \* file-system fault events per behaviour

-----------------------------------------------------------------------------
(* PriceProvider: pure signals (services/tibberService.js)                 *)

PriceLevels == {"VERY_CHEAP", "CHEAP", "NORMAL", "EXPENSIVE", "VERY_EXPENSIVE"}

\* loadConfig's defaultConfig; maxPriceThreshold: null is [set |-> FALSE]
defaultConfig ==
    [enabled |-> FALSE, apiKey |-> "", homeId |-> "",
     targetSoC |-> 80, minimumSoC |-> 20,
     maxPriceThreshold |-> [set |-> FALSE, value |-> 0],
     usePriceLevels |-> TRUE,
     allowedPriceLevels |-> {"VERY_CHEAP", "CHEAP", "NORMAL"}]

\* The cache a fresh TibberService starts with (constructor)
emptyCache == [currentPrice |-> <<>>, forecast |-> <<>>]

RECURSIVE FutureOf(_, _)
\* forecast.filter(price => new Date(price.startsAt) > now)
FutureOf(forecast, t) ==
    IF forecast = <<>> THEN <<>>
    ELSE IF Head(forecast).startsAt > t
         THEN <<Head(forecast)>> \o FutureOf(Tail(forecast), t)
         ELSE FutureOf(Tail(forecast), t)

RECURSIVE SumTotal(_)
SumTotal(s) == IF s = <<>> THEN 0 ELSE Head(s).total + SumTotal(Tail(s))

RECURSIVE FutureOrNowOf(_, _)
FutureOrNowOf(forecast, t) ==
    IF forecast = <<>> THEN <<>>
    ELSE IF Head(forecast).startsAt >= t
         THEN <<Head(forecast)>> \o FutureOrNowOf(Tail(forecast), t)
         ELSE FutureOrNowOf(Tail(forecast), t)

\* A variant that counts the entry starting exactly at now
calculateAveragePriceInclusive(cch, t, hours) ==
    IF cch.forecast = <<>> THEN [avail |-> FALSE, sum |-> 0, n |-> 1]
    ELSE LET fut == FutureOrNowOf(cch.forecast, t)
             futureHours == SubSeq(fut, 1, Min(hours, Len(fut)))
         IN  IF futureHours = <<>> THEN [avail |-> FALSE, sum |-> 0, n |-> 1]
             ELSE [avail |-> TRUE, sum |-> SumTotal(futureHours),
                   n |-> Len(futureHours)]

\* The mean is returned as the exact fraction sum/n; null is [avail |-> FALSE]
calculateAveragePrice(cch, t, hours) ==
    IF cch.forecast = <<>> THEN [avail |-> FALSE, sum |-> 0, n |-> 1]
    ELSE LET fut == FutureOf(cch.forecast, t)
             futureHours == SubSeq(fut, 1, Min(hours, Len(fut)))
         IN  IF futureHours = <<>> THEN [avail |-> FALSE, sum |-> 0, n |-> 1]
             ELSE [avail |-> TRUE, sum |-> SumTotal(futureHours),
                   n |-> Len(futureHours)]

DefaultAvgHours == 24

RECURSIVE InsertByTotal(_, _)
\* x precedes every element of the sorted sequence s in the original order:
\* it goes in front of the first element that is not cheaper (stable sort)
InsertByTotal(x, s) ==
    IF s = <<>> THEN <<x>>
    ELSE IF x.total <= Head(s).total THEN <<x>> \o s
    ELSE <<Head(s)>> \o InsertByTotal(x, Tail(s))

RECURSIVE SortByTotal(_)
\* Array.prototype.sort((a, b) => a.total - b.total), which is stable
SortByTotal(s) ==
    IF s = <<>> THEN <<>> ELSE InsertByTotal(Head(s), SortByTotal(Tail(s)))

\* getCheapestHours(count, hoursAhead): filter, slice(0, hoursAhead), sort,
\* slice(0, count), map to {time, price, level}.  filter builds a new array,
\* so the sort in place leaves this.cache.forecast as it is.
getCheapestHours(cch, t, count, hoursAhead) ==
    IF cch.forecast = <<>> THEN [result |-> <<>>, forecast |-> cch.forecast]
    ELSE LET fut == FutureOf(cch.forecast, t)
             futureHours == SubSeq(fut, 1, Min(hoursAhead, Len(fut)))
             sorted == SortByTotal(futureHours)
             first  == SubSeq(sorted, 1, Min(count, Len(sorted)))
         IN  [result |-> [i \in 1..Len(first) |->
                            [time |-> first[i].startsAt,
                             price |-> first[i].total,
                             level |-> first[i].level]],
              forecast |-> cch.forecast]

\* A variant that consults maxPriceThreshold before the average
isPriceGoodThresholdFirst(currentPrice, config, cch, t) ==
    LET price == IF currentPrice # <<>> THEN currentPrice ELSE cch.currentPrice
    IN  IF price = <<>> THEN FALSE
        ELSE IF config.usePriceLevels
             THEN price[1].level \in config.allowedPriceLevels
        ELSE IF config.maxPriceThreshold.set
             THEN price[1].total <= config.maxPriceThreshold.value
        ELSE LET avgPrice == calculateAveragePrice(cch, t, DefaultAvgHours)
             IN  avgPrice.avail /\ price[1].total * avgPrice.n < avgPrice.sum

\* A variant whose level test also asks for a total within maxPriceThreshold
isPriceGoodLevelAndThreshold(currentPrice, config, cch, t) ==
    LET price == IF currentPrice # <<>> THEN currentPrice ELSE cch.currentPrice
    IN  IF price = <<>> THEN FALSE
        ELSE IF config.usePriceLevels
             THEN /\ price[1].level \in config.allowedPriceLevels
                  /\ config.maxPriceThreshold.set
                        => price[1].total <= config.maxPriceThreshold.value
        ELSE LET avgPrice == calculateAveragePrice(cch, t, DefaultAvgHours)
             IN  IF avgPrice.avail
                 THEN price[1].total * avgPrice.n < avgPrice.sum
                 ELSE IF config.maxPriceThreshold.set
                      THEN price[1].total <= config.maxPriceThreshold.value
                      ELSE FALSE

\* currentPrice: <<>> (null) or <<point>>
isPriceGood(currentPrice, config, cch, t) ==
    LET price == IF currentPrice # <<>> THEN currentPrice ELSE cch.currentPrice
    IN  IF price = <<>> THEN FALSE
        ELSE IF config.usePriceLevels
             THEN price[1].level \in config.allowedPriceLevels
        ELSE LET avgPrice == calculateAveragePrice(cch, t, DefaultAvgHours)
             IN  IF avgPrice.avail
                 THEN price[1].total * avgPrice.n < avgPrice.sum
                 ELSE IF config.maxPriceThreshold.set
                      THEN price[1].total <= config.maxPriceThreshold.value
                      ELSE FALSE

-----------------------------------------------------------------------------
(* DecisionEngine and CommandPublisher                                     *)

NoDecision == [tick |-> 0]

Snap(soc, pv, ld, gv) ==
    [battery_soc |-> soc, pv_power |-> pv, load |-> ld, grid_voltage |-> gv]

\* telemetry snapshots offered to the engine: every rule of the priority
\* order has a snapshot that selects it, the safety rule also with a strong
\* solar surplus and at the boundary battery_soc = targetSoC
Snapshots ==
    {Snap(82, 3000, 1000, 230), Snap(80, 0, 1000, 230),
     Snap(40, 3000, 1000, 190), Snap(40, 0, 1000, 260),
     Snap(65, 3000, 1000, 230), Snap(40, 0, 1000, 230),
     Snap(40, 1500, 1000, 230), Snap(65, 1500, 1000, 230)}

\* price points offered to the engine: one acceptable, one unacceptable level
EnginePrices ==
    {[total |-> 10, level |-> "VERY_CHEAP", startsAt |-> 0],
     [total |-> 40, level |-> "VERY_EXPENSIVE", startsAt |-> 0]}

GridMin == 200
GridMax == 250
StrongSolarSocLimit == 90
MixedChargingSocLimit == 50

\* Rule 1 of the priority order
SafetyOverride(snap, config) ==
    \/ snap.battery_soc >= config.targetSoC
    \/ snap.grid_voltage < GridMin
    \/ snap.grid_voltage > GridMax

\* Rule 2 of the priority order
StrongSolar(snap) ==
    /\ snap.pv_power > snap.load * 2
    /\ snap.battery_soc < StrongSolarSocLimit

\* A variant that lets a strong solar surplus win over the safety rule
EvaluateSolarBeforeSafety(snap, price, config) ==
    LET good == isPriceGood(<<price>>, config, emptyCache, 0)
    IN  IF StrongSolar(snap)
        THEN [decision |-> "START_CHARGING", mode |-> "Solar only"]
        ELSE IF SafetyOverride(snap, config)
        THEN [decision |-> "STOP_CHARGING", mode |-> "Solar first"]
        ELSE IF good
        THEN [decision |-> "START_CHARGING", mode |-> "Utility first"]
        ELSE [decision |-> "STOP_CHARGING", mode |-> "Solar first"]

\* A variant with hysteresis: it keeps the published mode while charging
EvaluateSticky(snap, price, config) ==
    IF lastPublished # NoDecision /\ lastPublished.mode = "Solar only"
       /\ ~SafetyOverride(snap, config)
    THEN [decision |-> "START_CHARGING", mode |-> "Solar only"]
    ELSE IF SafetyOverride(snap, config)
    THEN [decision |-> "STOP_CHARGING", mode |-> "Solar first"]
    ELSE IF StrongSolar(snap)
    THEN [decision |-> "START_CHARGING", mode |-> "Solar only"]
    ELSE IF isPriceGood(<<price>>, config, emptyCache, 0)
    THEN [decision |-> "START_CHARGING", mode |-> "Utility first"]
    ELSE [decision |-> "STOP_CHARGING", mode |-> "Solar first"]

\* A variant that asks for the price before it looks at the solar surplus
EvaluatePriceBeforeSolar(snap, price, config) ==
    LET good == isPriceGood(<<price>>, config, emptyCache, 0)
    IN  IF SafetyOverride(snap, config)
        THEN [decision |-> "STOP_CHARGING", mode |-> "Solar first"]
        ELSE IF snap.pv_power = 0
        THEN IF good
             THEN [decision |-> "START_CHARGING", mode |-> "Utility first"]
             ELSE [decision |-> "STOP_CHARGING", mode |-> "Solar/Battery/Utility"]
        ELSE IF good
        THEN [decision |-> "START_CHARGING",
              mode |-> "Solar and utility simultaneously"]
        ELSE IF StrongSolar(snap)
        THEN [decision |-> "START_CHARGING", mode |-> "Solar only"]
        ELSE IF snap.battery_soc < MixedChargingSocLimit
        THEN [decision |-> "START_CHARGING", mode |-> "Solar/Utility/Battery"]
        ELSE [decision |-> "STOP_CHARGING", mode |-> "Solar first"]

\* A variant that answers an expensive price without solar power with the
\* charger priority of the selection table instead of the mode
EvaluateNoPvChargerPriority(snap, price, config) ==
    LET good == isPriceGood(<<price>>, config, emptyCache, 0)
    IN  IF SafetyOverride(snap, config)
        THEN [decision |-> "STOP_CHARGING", mode |-> "Solar first"]
        ELSE IF StrongSolar(snap)
        THEN [decision |-> "START_CHARGING", mode |-> "Solar only"]
        ELSE IF snap.pv_power = 0
        THEN IF good
             THEN [decision |-> "START_CHARGING", mode |-> "Utility first"]
             ELSE [decision |-> "STOP_CHARGING", mode |-> "Solar first"]
        ELSE IF good
        THEN [decision |-> "START_CHARGING",
              mode |-> "Solar and utility simultaneously"]
        ELSE IF snap.battery_soc < MixedChargingSocLimit
        THEN [decision |-> "START_CHARGING", mode |-> "Solar/Utility/Battery"]
        ELSE [decision |-> "STOP_CHARGING", mode |-> "Solar first"]

\* A variant without the low-battery rule for moderate solar power
EvaluateWithoutMixedCharging(snap, price, config) ==
    LET good == isPriceGood(<<price>>, config, emptyCache, 0)
    IN  IF SafetyOverride(snap, config)
        THEN [decision |-> "STOP_CHARGING", mode |-> "Solar first"]
        ELSE IF StrongSolar(snap)
        THEN [decision |-> "START_CHARGING", mode |-> "Solar only"]
        ELSE IF snap.pv_power = 0
        THEN IF good
             THEN [decision |-> "START_CHARGING", mode |-> "Utility first"]
             ELSE [decision |-> "STOP_CHARGING", mode |-> "Solar/Battery/Utility"]
        ELSE IF good
        THEN [decision |-> "START_CHARGING",
              mode |-> "Solar and utility simultaneously"]
        ELSE [decision |-> "STOP_CHARGING", mode |-> "Solar first"]

\* The fixed priority evaluation of (snapshot, price, config)
Evaluate(snap, price, config) ==
    LET good == isPriceGood(<<price>>, config, emptyCache, 0)
    IN  IF SafetyOverride(snap, config)
        THEN [decision |-> "STOP_CHARGING", mode |-> "Solar first"]
        ELSE IF StrongSolar(snap)
        THEN [decision |-> "START_CHARGING", mode |-> "Solar only"]
        ELSE IF snap.pv_power = 0
        THEN IF good
             THEN [decision |-> "START_CHARGING", mode |-> "Utility first"]
             ELSE [decision |-> "STOP_CHARGING", mode |-> "Solar/Battery/Utility"]
        ELSE IF good
        THEN [decision |-> "START_CHARGING",
              mode |-> "Solar and utility simultaneously"]
        ELSE IF snap.battery_soc < MixedChargingSocLimit
        THEN [decision |-> "START_CHARGING", mode |-> "Solar/Utility/Battery"]
        ELSE [decision |-> "STOP_CHARGING", mode |-> "Solar first"]

\* Edge trigger compared against the previous computed decision instead of
\* the last published one
ShouldPublishVsLastComputed(d, active) ==
    /\ active
    /\ (lastDecision = NoDecision \/ lastDecision.mode # d.mode)

\* Edge trigger without the learner gate
ShouldPublishUngated(d, active) ==
    lastPublished = NoDecision \/ lastPublished.mode # d.mode

\* Edge-triggered publication behind the learner gate
ShouldPublish(d, active) ==
    /\ active
    /\ (lastPublished = NoDecision \/ lastPublished.mode # d.mode)

\* A tick may start while an older evaluation is still running
CanStartTickUnguarded == TRUE

\* Mutual exclusion of evaluations across ticks
CanStartTick == inflight = {}

\* A tick captures its snapshot and price once and starts the evaluation
TickStart(snap, price) ==
    /\ tickCount < MaxTicks
    /\ CanStartTick
    /\ tickCount' = tickCount + 1
    /\ inflight' = inflight \cup
                     {[tick |-> tickCount + 1, snap |-> snap, price |-> price]}
    /\ UNCHANGED <<learnerModeActive, lastPublished, firstDecision,
                   lastDecision, loggedCount, publishLog>>
    /\ UNCHANGED <<warnVars, priceVars, tgVars, pubVars, queryVars>>

\* The evaluation of a tick completes: log always, publish on a mode change
TickFinish(e) ==
    LET d   == Evaluate(e.snap, e.price, defaultConfig)
        pub == ShouldPublish(d, learnerModeActive)
        rec == [tick |-> e.tick, snap |-> e.snap, price |-> e.price,
                decision |-> d.decision, mode |-> d.mode,
                active |-> learnerModeActive, published |-> pub,
                prevPublished |-> lastPublished]
    IN  /\ inflight' = inflight \ {e}
        /\ lastDecision' = rec
        /\ firstDecision' = IF firstDecision = NoDecision THEN rec
                            ELSE firstDecision
        /\ loggedCount' = loggedCount + 1
        /\ IF pub
           THEN /\ lastPublished' = [tick |-> e.tick, mode |-> d.mode]
                /\ publishLog' = Append(publishLog,
                                        [tick |-> e.tick, mode |-> d.mode])
           ELSE UNCHANGED <<lastPublished, publishLog>>
        /\ UNCHANGED <<learnerModeActive, tickCount>>
        /\ UNCHANGED <<warnVars, priceVars, tgVars, pubVars, queryVars>>

\* The user switches the learner flag
SetLearnerMode(b) ==
    /\ learnerModeActive # b
    /\ learnerModeActive' = b
    /\ UNCHANGED <<tickCount, inflight, lastPublished, firstDecision,
                   lastDecision, loggedCount, publishLog>>
    /\ UNCHANGED <<warnVars, priceVars, tgVars, pubVars, queryVars>>

EngineInit ==
    /\ learnerModeActive = FALSE
    /\ tickCount = 0
    /\ inflight = {}
    /\ lastPublished = NoDecision
    /\ firstDecision = NoDecision
    /\ lastDecision = NoDecision
    /\ loggedCount = 0
    /\ publishLog = <<>>

DoTickStart == \E snap \in Snapshots, price \in EnginePrices : TickStart(snap, price)
DoTickFinish == \E e \in inflight : TickFinish(e)
DoSetLearnerMode == \E b \in BOOLEAN : SetLearnerMode(b)

EngineNext == DoTickStart \/ DoTickFinish \/ DoSetLearnerMode

-----------------------------------------------------------------------------
(* WarningMonitor (services/warningService.js)                             *)

\* config.maxHistoryItems; the shipped default is 100, scaled down here
MaxHistoryItems == 2

\* Instants at which the clock is observed, in minutes since local midnight:
\* 17:00 (T), T+10, T+59, T+60 (18:00) and T+61
TimePoints == {1020, 1030, 1079, 1080, 1081}

StartTime == CHOOSE t \in TimePoints : \A u \in TimePoints : t <= u

\* new Date().getHours()
HourOf(t) == (t \div 60) % 24

\* A value of a JSON document where a number is expected: a number, a text
\* that is not a number, or nothing (undefined)
Num(n) == [kind |-> "number", num |-> n]
NotANumber == [kind |-> "string", num |-> 0]
Undefined == [kind |-> "undefined", num |-> 0]

WarnRule(id, parameter, condition, threshold, enabled, cooldown) ==
    [id |-> id, parameter |-> parameter, condition |-> condition,
     threshold |-> Num(threshold), enabled |-> enabled,
     cooldownMinutes |-> cooldown, timeCondition |-> "none"]

\* Rules a user may create: the low-battery rule of the cooldown scenario
\* (enabled or left disabled) and a second, independent rule
RuleCatalogue ==
    {WarnRule("A", "battery_soc", "lt", 15, TRUE, 60),
     WarnRule("A", "battery_soc", "lt", 15, FALSE, 60),
     WarnRule("B", "load", "gt", 100, TRUE, 10)}

RuleIds == {r.id : r \in RuleCatalogue}

\* systemState values; a field is <<v>> when present and <<>> when null
WarnSnapshots ==
    {[battery_soc |-> <<10>>, load |-> <<500>>],
     [battery_soc |-> <<20>>, load |-> <<500>>],
     [battery_soc |-> <<>>,   load |-> <<50>>]}

\* defaultConfig (module level): its two arrays are shared by every shallow
\* copy { ...defaultConfig } that getConfig returns on a read failure
emptyWarnDefault == [warningTypes |-> <<>>, warningHistory |-> <<>>]

\* The document ensureConfigFile writes when the file does not exist
warnDefaultConfig ==
    [enabled |-> TRUE, warningTypes |-> <<>>, warningHistory |-> <<>>,
     maxHistoryItems |-> MaxHistoryItems]

\* The store as a handler sees it: the file, whether it parses, and the
\* arrays of defaultConfig
WarnStore == [file |-> wFile, ok |-> wFileOk, def |-> wDefault]

\* getConfig: the parsed file, or a shallow copy of defaultConfig
warn_getConfig(st) ==
    IF st.ok THEN st.file
    ELSE [enabled |-> TRUE, warningTypes |-> st.def.warningTypes,
          warningHistory |-> st.def.warningHistory,
          maxHistoryItems |-> MaxHistoryItems]

\* saveConfig: rewrites the file; a write error is caught and reported as false
warn_saveConfig(st, config, diskOk) ==
    IF diskOk THEN [st EXCEPT !.file = config, !.ok = TRUE] ELSE st

\* getWarningTypeById: <<rule>> or <<>> (undefined)
getWarningTypeById(st, id) ==
    LET types == warn_getConfig(st).warningTypes
        hits  == {i \in 1..Len(types) : types[i].id = id}
    IN  IF hits = {} THEN <<>>
        ELSE <<types[CHOOSE i \in hits : \A j \in hits : i <= j]>>

\* isDaytime
isDaytime(t) == HourOf(t) >= 8 /\ HourOf(t) <= 18

\* A variant that lets a rule it cannot resolve pass
isWarningOnCooldownFailOpen(st, warningTypeId, t) ==
    LET config      == warn_getConfig(st)
        warningType == getWarningTypeById(st, warningTypeId)
        h           == config.warningHistory
        mine        == {i \in 1..Len(h) : h[i].warningTypeId = warningTypeId}
    IN  IF warningType = <<>> \/ mine = {} THEN FALSE
        ELSE LET recent == CHOOSE i \in mine :
                              \A j \in mine : h[i].timestamp >= h[j].timestamp
                 elapsedMinutes == t - h[recent].timestamp
             IN  elapsedMinutes < warningType[1].cooldownMinutes

\* isWarningOnCooldown
isWarningOnCooldown(st, warningTypeId, t) ==
    LET config      == warn_getConfig(st)
        warningType == getWarningTypeById(st, warningTypeId)
        h           == config.warningHistory
        mine        == {i \in 1..Len(h) : h[i].warningTypeId = warningTypeId}
    IN  IF warningType = <<>> THEN TRUE
        ELSE IF mine = {} THEN FALSE
        ELSE LET recent == CHOOSE i \in mine :
                              \A j \in mine : h[i].timestamp >= h[j].timestamp
                 elapsedMinutes == t - h[recent].timestamp
             IN  elapsedMinutes < warningType[1].cooldownMinutes

\* evaluateCondition
evaluateCondition(condition, currentValue, thresholdValue) ==
    \* a text that is not a number compares as NaN: every comparison is false
    IF thresholdValue.kind # "number" THEN FALSE
    ELSE CASE condition = "lt"  -> currentValue < thresholdValue.num
           [] condition = "gt"  -> currentValue > thresholdValue.num
           [] condition = "eq"  -> currentValue = thresholdValue.num
           [] condition = "lte" -> currentValue <= thresholdValue.num
           [] condition = "gte" -> currentValue >= thresholdValue.num
           [] OTHER             -> FALSE

\* addWarningToHistory: unshift mutates the array in place (the shared
\* default array when the config is a fallback copy), slice builds a new
\* array for this config object only; the result of saveConfig is ignored
addWarningToHistory(st, warningInstance, diskOk) ==
    LET config   == warn_getConfig(st)
        unshifted == <<warningInstance>> \o config.warningHistory
        st1      == IF st.ok THEN st
                    ELSE [st EXCEPT !.def.warningHistory = unshifted]
        trimmed  == IF Len(unshifted) > config.maxHistoryItems
                    THEN SubSeq(unshifted, 1, config.maxHistoryItems)
                    ELSE unshifted
    IN  warn_saveConfig(st1, [config EXCEPT !.warningHistory = trimmed], diskOk)

\* A variant that skips a value of 0 as if it were absent
RuleFiresSkipsZero(st, warningType, systemState, t) ==
    /\ ~isWarningOnCooldown(st, warningType.id, t)
    /\ ~(warningType.timeCondition = "daytime" /\ ~isDaytime(t))
    /\ systemState[warningType.parameter] # <<>>
    /\ systemState[warningType.parameter] # <<0>>
    /\ evaluateCondition(warningType.condition,
                         systemState[warningType.parameter][1],
                         warningType.threshold)

\* Whether one enabled rule yields an event for this snapshot
RuleFires(st, warningType, systemState, t) ==
    /\ ~isWarningOnCooldown(st, warningType.id, t)
    /\ ~(warningType.timeCondition = "daytime" /\ ~isDaytime(t))
    /\ systemState[warningType.parameter] # <<>>
    /\ evaluateCondition(warningType.condition,
                         systemState[warningType.parameter][1],
                         warningType.threshold)

RECURSIVE CheckLoop(_, _, _, _, _)
\* enabledWarnings.forEach(...): the store is re-read for every rule, so an
\* event added for one rule is seen by the rules after it
CheckLoop(rules, st, systemState, t, diskOk) ==
    IF rules = <<>> THEN [st |-> st, triggered |-> <<>>]
    ELSE LET warningType == Head(rules)
             fires == RuleFires(st, warningType, systemState, t)
             warningInstance ==
                 [warningTypeId |-> warningType.id, timestamp |-> t,
                  value |-> systemState[warningType.parameter]]
             st1  == IF fires
                     THEN addWarningToHistory(st, warningInstance, diskOk)
                     ELSE st
             rest == CheckLoop(Tail(rules), st1, systemState, t, diskOk)
         IN  [st |-> rest.st,
              triggered |-> (IF fires THEN <<warningInstance>> ELSE <<>>)
                              \o rest.triggered]

RECURSIVE EnabledOf(_)
\* config.warningTypes.filter(w => w.enabled === true)
EnabledOf(types) ==
    IF types = <<>> THEN <<>>
    ELSE IF Head(types).enabled = TRUE
         THEN <<Head(types)>> \o EnabledOf(Tail(types))
         ELSE EnabledOf(Tail(types))

\* A variant that evaluates the rules whatever config.enabled says
checkWarningsIgnoringSwitch(st, systemState, t, diskOk) ==
    CheckLoop(EnabledOf(warn_getConfig(st).warningTypes), st, systemState, t,
              diskOk)

\* setWarningSystemEnabled: the global switch, written with saveConfig
setWarningSystemEnabled(st, enabled, diskOk) ==
    warn_saveConfig(st, [warn_getConfig(st) EXCEPT !.enabled = enabled], diskOk)

\* checkWarnings as a function of the store: the new store and the events
checkWarnings(st, systemState, t, diskOk) ==
    LET config == warn_getConfig(st)
    IN  IF ~config.enabled THEN [st |-> st, triggered |-> <<>>]
        ELSE CheckLoop(EnabledOf(config.warningTypes), st, systemState, t, diskOk)

Reverse(s) == [i \in 1..Len(s) |-> s[Len(s) + 1 - i]]

\* The first k entries of a newest-first sequence
Newest(s, k) == SubSeq(s, 1, Min(k, Len(s)))

\* One evaluation tick of the monitor
CheckWarnings(systemState) ==
    /\ wChecks < MaxChecks
    /\ LET r == checkWarnings(WarnStore, systemState, now, wDiskOk)
       IN  /\ wFile' = r.st.file
           /\ wFileOk' = r.st.ok
           /\ wDefault' = r.st.def
           /\ wSnapshot' = systemState
           /\ wReturned' = r.triggered
           /\ wRecent' = Newest(Reverse(r.triggered) \o wRecent, MaxHistoryItems)
           /\ wTriggered' = wTriggered + Len(r.triggered)
           /\ wLastTrigger' =
                [id \in RuleIds |->
                   IF \E i \in 1..Len(r.triggered) : r.triggered[i].warningTypeId = id
                   THEN <<now>> ELSE wLastTrigger[id]]
           /\ wCarried' = wCarried \
                {r.triggered[i].warningTypeId : i \in 1..Len(r.triggered)}
    /\ wChecks' = wChecks + 1
    /\ UNCHANGED <<now, wDiskOk, wFaults>>
    /\ UNCHANGED <<engineVars, priceVars, tgVars, pubVars, queryVars>>

\* addWarningType: push mutates the array in place (the shared default array
\* when the config is a fallback copy)
addWarningType(st, warningType, diskOk) ==
    LET config == warn_getConfig(st)
        wt     == [warningType EXCEPT !.enabled = (warningType.enabled \/ FALSE)]
        pushed == Append(config.warningTypes, wt)
        st1    == IF st.ok THEN st
                  ELSE [st EXCEPT !.def.warningTypes = pushed]
    IN  warn_saveConfig(st1, [config EXCEPT !.warningTypes = pushed], diskOk)

\* POST /warnings/types: the user creates a rule (ids are unique)
AddWarningType(warningType) ==
    /\ \A i \in 1..Len(warn_getConfig(WarnStore).warningTypes) :
          warn_getConfig(WarnStore).warningTypes[i].id # warningType.id
    /\ LET st == addWarningType(WarnStore, warningType, wDiskOk)
       IN  /\ wFile' = st.file
           /\ wFileOk' = st.ok
           /\ wDefault' = st.def
    /\ UNCHANGED <<now, wDiskOk, wSnapshot, wReturned, wRecent, wTriggered,
                   wLastTrigger, wChecks, wFaults, wCarried>>
    /\ UNCHANGED <<engineVars, priceVars, tgVars, pubVars, queryVars>>

DefaultCooldownMinutes == 30

\* A variant of the route that enables a rule unless the request says false
postWarningTypeEnabledByDefault(st, body, id, diskOk) ==
    IF \/ body.name = "" \/ body.parameter = "" \/ body.condition = ""
       \/ body.threshold.kind = "undefined"
    THEN [st |-> st, status |-> 400]
    ELSE [st |-> addWarningType(st,
                   [id |-> id, parameter |-> body.parameter,
                    condition |-> body.condition, threshold |-> body.threshold,
                    enabled |-> (body.enabled # <<FALSE>>),
                    cooldownMinutes |-> DefaultCooldownMinutes,
                    timeCondition |-> body.timeCondition], diskOk),
          status |-> 200]

\* POST /warnings/types: 400 when name, parameter or condition is missing
\* or empty or threshold is undefined; otherwise the rule is built from the
\* body (enabled: false unless given) and handed to addWarningType.  A
\* field of the body is "" or <<>> when absent.
postWarningType(st, body, id, diskOk) ==
    IF \/ body.name = "" \/ body.parameter = "" \/ body.condition = ""
       \/ body.threshold.kind = "undefined"
    THEN [st |-> st, status |-> 400]
    ELSE [st |-> addWarningType(st,
                   [id |-> id, parameter |-> body.parameter,
                    condition |-> body.condition, threshold |-> body.threshold,
                    enabled |-> (IF body.enabled # <<>> THEN body.enabled[1]
                                 ELSE FALSE),
                    cooldownMinutes |-> DefaultCooldownMinutes,
                    timeCondition |-> body.timeCondition], diskOk),
          status |-> 200]

\* A request to POST /warnings/types arrives; the id the route makes from
\* the clock is one no stored rule has
PostWarningType(body, id) ==
    /\ \A i \in 1..Len(warn_getConfig(WarnStore).warningTypes) :
          warn_getConfig(WarnStore).warningTypes[i].id # id
    /\ LET r == postWarningType(WarnStore, body, id, wDiskOk)
       IN  /\ wFile' = r.st.file
           /\ wFileOk' = r.st.ok
           /\ wDefault' = r.st.def
           /\ query' = [op |-> "POST /warnings/types", body |-> body, id |-> id,
                        status |-> r.status,
                        typesBefore |-> warn_getConfig(WarnStore).warningTypes]
    /\ UNCHANGED <<now, wDiskOk, wSnapshot, wReturned, wRecent, wTriggered,
                   wLastTrigger, wChecks, wFaults, wCarried>>
    /\ UNCHANGED <<engineVars, priceVars, tgVars, pubVars>>

\* A well-formed request body, and the bodies offered to the route
WellFormedBody ==
    [name |-> "Low battery", parameter |-> "battery_soc", condition |-> "lt",
     threshold |-> Num(15), enabled |-> <<>>, timeCondition |-> "none"]

ValidationBodies ==
    {WellFormedBody,
     [WellFormedBody EXCEPT !.enabled = <<TRUE>>],
     [WellFormedBody EXCEPT !.name = ""],
     [WellFormedBody EXCEPT !.parameter = ""],
     [WellFormedBody EXCEPT !.condition = ""],
     [WellFormedBody EXCEPT !.threshold = Undefined],
     [WellFormedBody EXCEPT !.condition = "between"],
     [WellFormedBody EXCEPT !.threshold = NotANumber]}

CreationBodies ==
    {[WellFormedBody EXCEPT !.enabled = e, !.parameter = p] :
        e \in {<<>>, <<TRUE>>, <<FALSE>>}, p \in {"battery_soc", "load"}}

\* Wall-clock time passes
AdvanceClock(t) ==
    /\ t > now
    /\ now' = t
    /\ UNCHANGED <<wFile, wFileOk, wDiskOk, wDefault, wSnapshot, wReturned,
                   wRecent, wTriggered, wLastTrigger, wChecks, wFaults, wCarried>>
    /\ UNCHANGED <<engineVars, priceVars, tgVars, pubVars, queryVars>>

\* Environment: the config file becomes unparsable (truncated write, manual
\* edit); JSON.parse throws from then on until the file is rewritten
CorruptFile ==
    /\ wFileOk
    /\ wFaults < MaxFaults
    /\ wFileOk' = FALSE
    /\ wFaults' = wFaults + 1
    /\ UNCHANGED <<now, wFile, wDiskOk, wDefault, wSnapshot, wReturned, wRecent,
                   wTriggered, wLastTrigger, wChecks, wCarried>>
    /\ UNCHANGED <<engineVars, priceVars, tgVars, pubVars, queryVars>>

\* Environment: writes to the data directory start or stop failing
SetDiskOk(b) ==
    /\ wDiskOk # b
    /\ ~b => wFaults < MaxFaults
    /\ wDiskOk' = b
    /\ wFaults' = IF b THEN wFaults ELSE wFaults + 1
    /\ UNCHANGED <<now, wFile, wFileOk, wDefault, wSnapshot, wReturned, wRecent,
                   wTriggered, wLastTrigger, wChecks, wCarried>>
    /\ UNCHANGED <<engineVars, priceVars, tgVars, pubVars, queryVars>>

\* The process restarts: the module is loaded again, so defaultConfig is the
\* literal of the source again; the config file stays as it is
Restart ==
    /\ wDefault' = emptyWarnDefault
    /\ wCarried' = {id \in RuleIds : wLastTrigger[id] # <<>>}
    /\ wCarried' # wCarried \/ wDefault' # wDefault
    /\ UNCHANGED <<now, wFile, wFileOk, wDiskOk, wSnapshot, wReturned, wRecent,
                   wTriggered, wLastTrigger, wChecks, wFaults>>
    /\ UNCHANGED <<engineVars, priceVars, tgVars, pubVars, queryVars>>

WarnInit ==
    /\ now = StartTime
    /\ wFile = warnDefaultConfig
    /\ wFileOk = TRUE
    /\ wDiskOk = TRUE
    /\ wDefault = emptyWarnDefault
    /\ wSnapshot = [battery_soc |-> <<>>, load |-> <<>>]
    /\ wReturned = <<>>
    /\ wRecent = <<>>
    /\ wTriggered = 0
    /\ wLastTrigger = [id \in RuleIds |-> <<>>]
    /\ wChecks = 0
    /\ wFaults = 0
    /\ wCarried = {}

DoCheckWarnings == \E systemState \in WarnSnapshots : CheckWarnings(systemState)
DoAddWarningType == \E warningType \in RuleCatalogue : AddWarningType(warningType)
DoAdvanceClock == \E t \in TimePoints : AdvanceClock(t)
DoSetDiskOk == \E b \in BOOLEAN : SetDiskOk(b)

\* The monitor with rules created through the route
WarnCreateNext ==
    \/ \E body \in CreationBodies, id \in RuleIds : PostWarningType(body, id)
    \/ DoCheckWarnings
    \/ DoAdvanceClock

\* The monitor with a healthy file system
WarnNextHealthy == DoCheckWarnings \/ DoAddWarningType \/ DoAdvanceClock

\* The monitor with a healthy file system and process restarts
WarnNextRestart == WarnNextHealthy \/ Restart

\* The monitor when writes to the data directory may fail
WarnNextDisk == WarnNextHealthy \/ DoSetDiskOk

\* The monitor when its config file may become unparsable
WarnNextCorrupt == WarnNextHealthy \/ CorruptFile

\* The monitor with every file-system fault
WarnNext == WarnNextDisk \/ CorruptFile \/ Restart

-----------------------------------------------------------------------------
(* PriceProvider: refresh (services/tibberService.js)                      *)


Point(total, level, startsAt) ==
    [total |-> total, level |-> level, startsAt |-> startsAt]

\* price * 100: major currency units to hundredths
ToCent(price) == [price EXCEPT !.total = price.total * 100]

\* Array.prototype.map(price => ({...price, total: price.total * 100, ...}))
ConvertAll(prices) == [i \in 1..Len(prices) |-> ToCent(prices[i])]

\* What the price API may answer to one request.  status: "ok" (a data
\* document), "network" (transport failure or timeout), "auth" (rejected
\* credentials, reported as a GraphQL error).  In a data document the home,
\* priceInfo.current and priceInfo.today may be missing (null); a null
\* priceInfo.tomorrow is regular.  Optional parts are <<>> or <<value>>.
ApiData(homeFound, current, today, tomorrow) ==
    [status |-> "ok", homeFound |-> homeFound, current |-> current,
     today |-> today, tomorrow |-> tomorrow]

ApiFailure(status) ==
    [status |-> status, homeFound |-> FALSE, current |-> <<>>,
     today |-> <<>>, tomorrow |-> <<>>]

TodayA == <<Point(2, "NORMAL", 960), Point(3, "EXPENSIVE", 1080)>>
\* A list that is not in ascending order of startsAt
TodayUnsorted == <<Point(3, "EXPENSIVE", 1080), Point(2, "NORMAL", 960)>>
TodayB == <<Point(1, "CHEAP", 1080)>>
TomorrowB == <<Point(4, "VERY_EXPENSIVE", 1440)>>

ApiResponses ==
    {ApiData(TRUE, <<Point(2, "NORMAL", 960)>>, <<TodayA>>, <<>>),
     ApiData(TRUE, <<Point(1, "CHEAP", 1080)>>, <<TodayB>>, <<TomorrowB>>),
     ApiData(TRUE, <<Point(3, "EXPENSIVE", 1080)>>, <<TodayUnsorted>>, <<>>),
     ApiData(FALSE, <<>>, <<>>, <<>>),
     ApiData(TRUE, <<>>, <<TodayA>>, <<>>),
     ApiData(TRUE, <<Point(2, "NORMAL", 960)>>, <<>>, <<>>),
     ApiFailure("network"),
     ApiFailure("auth")}

\* A variant that stores the converted current price as soon as it is
\* computed, before today's list is converted
getCurrentPriceInfoEagerWrite(cch, response) ==
    IF response.status # "ok" \/ ~response.homeFound \/ response.current = <<>>
    THEN [cache |-> cch, threw |-> TRUE]
    ELSE IF response.today = <<>>
    THEN [cache |-> [cch EXCEPT !.currentPrice = <<ToCent(response.current[1])>>],
          threw |-> TRUE]
    ELSE [cache |-> [currentPrice |-> <<ToCent(response.current[1])>>,
                     forecast |-> ConvertAll(response.today[1]) \o
                        (IF response.tomorrow = <<>> THEN <<>>
                         ELSE ConvertAll(response.tomorrow[1]))],
          threw |-> FALSE]

\* getCurrentPriceInfo / getPriceInfoFromFirstHome from the arrival of the
\* response up to `await this.saveCache()`: the request error is rethrown,
\* a missing home, current or today throws a TypeError (or 'No homes found')
\* before the first assignment to this.cache, and the three conversions
\* precede the assignments
getCurrentPriceInfo(cch, response) ==
    IF \/ response.status # "ok"
       \/ ~response.homeFound
       \/ response.current = <<>>
       \/ response.today = <<>>
    THEN [cache |-> cch, threw |-> TRUE]
    ELSE LET convertedCurrent  == ToCent(response.current[1])
             convertedToday    == ConvertAll(response.today[1])
             convertedTomorrow == IF response.tomorrow = <<>> THEN <<>>
                                  ELSE ConvertAll(response.tomorrow[1])
         IN  [cache |-> [currentPrice |-> <<convertedCurrent>>,
                         forecast |-> convertedToday \o convertedTomorrow],
              threw |-> FALSE]

\* The durable store holds no point
emptyInflux == [current |-> {}, forecast |-> {}]

\* writePoints: a point replaces the stored point of the same series (tag
\* level) and timestamp
Upsert(points, pt) ==
    {q \in points : ~(q.time = pt.time /\ q.level = pt.level)} \cup {pt}

RECURSIVE UpsertAll(_, _)
UpsertAll(points, prices) ==
    IF prices = <<>> THEN points
    ELSE UpsertAll(Upsert(points, [time |-> Head(prices).startsAt,
                                   level |-> Head(prices).level,
                                   total |-> Head(prices).total \div 100]),
                   Tail(prices))

\* saveCacheToInfluxDB: the current price and every forecast entry become
\* points (total / 100, tag level, timestamp startsAt)
saveCacheToInfluxDB(store, cch) ==
    [current  |-> UpsertAll(store.current, cch.currentPrice),
     forecast |-> UpsertAll(store.forecast, cch.forecast)]

\* Rank of a tag value, for the order of rows with the same time
LevelRank(level) ==
    CASE level = "VERY_CHEAP" -> 1 [] level = "CHEAP" -> 2
      [] level = "NORMAL" -> 3 [] level = "EXPENSIVE" -> 4 [] OTHER -> 5

RECURSIVE RowsByTime(_)
\* ORDER BY time ASC
RowsByTime(points) ==
    IF points = {} THEN <<>>
    ELSE LET first == CHOOSE q \in points : \A r \in points :
                         \/ q.time < r.time
                         \/ (q.time = r.time /\ LevelRank(q.level) <= LevelRank(r.level))
         IN  <<first>> \o RowsByTime(points \ {first})

\* loadCacheFromInfluxDB at time t: null (<<>>) without a current price of
\* the last hour, else the cache built from the rows; level is the level
\* column of the current-price row as the store answers it
loadCacheFromInfluxDB(store, t, level) ==
    LET currentResult == {q \in store.current : q.time > t - 60}
        rows == RowsByTime({q \in store.forecast :
                              q.time > t - 120 /\ q.time < t + 2880})
    IN  IF currentResult = {} THEN <<>>
        ELSE LET last == CHOOSE q \in currentResult :
                            \A r \in currentResult : q.time >= r.time
             IN  <<[currentPrice |-> <<Point(last.total * 100, level, last.time)>>,
                    forecast |-> [i \in 1..Len(rows) |->
                                    Point(rows[i].total * 100, rows[i].level,
                                          rows[i].time)]]>>

\* refreshData's early returns: feature disabled, or no usable API key
RefreshRefused(config) ==
    \/ ~config.enabled
    \/ config.apiKey = ""
    \/ config.apiKey = "***"

\* this.retryAttempts, a field no method reads
retryAttempts == 3

\* A variant that sends the request again after a failure
RefreshOutcomeRetrying(threw) == IF threw THEN "retry" ELSE "saving"

\* refreshData's try/catch around getCurrentPriceInfo: an exception becomes
\* the return value false
RefreshOutcome(threw) == IF threw THEN "false" ELSE "saving"

\* What the durable store does when the cache is saved
StoreOutcomes == {"ok", "absent", "ping fails", "write throws"}

\* A variant of saveCache that lets a failure of the durable store escape
saveCacheRethrowing(store, cch, outcome) ==
    IF outcome = "ok"
    THEN [store |-> saveCacheToInfluxDB(store, cch), threw |-> FALSE]
    ELSE [store |-> store, threw |-> outcome # "absent"]

\* saveCache / saveCacheToInfluxDB: without global.influx or after a failed
\* ping the function returns, an exception of writePoints is caught and
\* logged; in each case nothing is thrown to getCurrentPriceInfo
saveCache(store, cch, outcome) ==
    IF outcome = "ok"
    THEN [store |-> saveCacheToInfluxDB(store, cch), threw |-> FALSE]
    ELSE [store |-> store, threw |-> FALSE]

InFlight == {i \in 1..Len(calls) : calls[i].pc \in {"fetching", "saving"}}

\* refreshData is called, by the scheduler or on demand: it returns false at
\* once, or sends the request and awaits the response
RefreshStart(by) ==
    /\ Len(calls) < MaxCalls
    /\ calls' = Append(calls,
                  IF RefreshRefused(tConfig)
                  THEN [by |-> by, pc |-> "done", result |-> "false",
                        fetches |-> 0, wrote |-> FALSE, cacheBefore |-> cache,
                        response |-> "none", fetched |-> <<>>,
                        store |-> "none",
                        seen |-> [enabled |-> tConfig.enabled,
                                  apiKey |-> tConfig.apiKey]]
                  ELSE [by |-> by, pc |-> "fetching", result |-> "none",
                        fetches |-> 1, wrote |-> FALSE, cacheBefore |-> cache,
                        response |-> "none", fetched |-> <<>>,
                        store |-> "none",
                        seen |-> [enabled |-> tConfig.enabled,
                                  apiKey |-> tConfig.apiKey]])
    /\ UNCHANGED <<tConfig, cache, influx, influxCacheLoaded, restoring>>
    /\ UNCHANGED <<engineVars, warnVars, tgVars, pubVars, queryVars>>

\* The response (or the request's failure) arrives for call i: the call
\* goes on to save the cache, or returns false; it would send the request
\* again only if the outcome of a failure were a retry
RefreshResponse(i, response) ==
    /\ calls[i].pc = "fetching"
    /\ LET r   == getCurrentPriceInfo(cache, response)
           out == RefreshOutcome(r.threw)
           again == out = "retry" /\ calls[i].fetches < retryAttempts
       IN  /\ cache' = r.cache
           /\ calls' = [calls EXCEPT
                          ![i].pc = IF out = "saving" THEN "saving"
                                    ELSE IF again THEN "fetching" ELSE "done",
                          ![i].result = IF out = "saving" \/ again THEN "none"
                                        ELSE "false",
                          ![i].fetches = IF again THEN @ + 1 ELSE @,
                          ![i].wrote = (r.cache # cache) \/ ~r.threw,
                          ![i].response = response.status,
                          ![i].fetched = IF r.threw THEN <<>> ELSE <<r.cache>>]
    /\ UNCHANGED <<tConfig, influx, influxCacheLoaded, restoring>>
    /\ UNCHANGED <<engineVars, warnVars, tgVars, pubVars, queryVars>>

\* saveCache completes for call i: saveCacheToInfluxDB has written the
\* points of this.cache as it is now (the durable store's failures are
\* caught inside it); refreshData returns true
RefreshSaved(i) ==
    /\ calls[i].pc = "saving"
    /\ LET r == saveCache(influx, cache, "ok")
       IN  /\ calls' = [calls EXCEPT
                          ![i].pc = "done",
                          ![i].result = IF r.threw THEN "false" ELSE "true",
                          ![i].store = "ok"]
           /\ influx' = r.store
    /\ UNCHANGED <<tConfig, cache, influxCacheLoaded, restoring>>
    /\ UNCHANGED <<engineVars, warnVars, tgVars, pubVars, queryVars>>

\* saveCache completes for call i while the durable store is absent, does
\* not answer the ping, or throws from writePoints
RefreshSaveFailed(i, outcome) ==
    /\ calls[i].pc = "saving"
    /\ outcome # "ok"
    /\ LET r == saveCache(influx, cache, outcome)
       IN  /\ calls' = [calls EXCEPT
                          ![i].pc = "done",
                          ![i].result = IF r.threw THEN "false" ELSE "true",
                          ![i].store = "failed"]
           /\ influx' = r.store
    /\ UNCHANGED <<tConfig, cache, influxCacheLoaded, restoring>>
    /\ UNCHANGED <<engineVars, warnVars, tgVars, pubVars, queryVars>>

\* A variant that knows only the three-star placeholder
updateConfigThreeStarsOnly(config, newConfig) ==
    LET keepKey == \/ newConfig.apiKey = <<>>
                   \/ newConfig.apiKey \in {<<"***">>, <<"">>}
    IN  [config EXCEPT
           !.enabled = IF newConfig.enabled = <<>> THEN @ ELSE newConfig.enabled[1],
           !.apiKey  = IF keepKey THEN @ ELSE newConfig.apiKey[1],
           !.homeId  = IF newConfig.homeId = <<>> THEN @ ELSE newConfig.homeId[1]]

\* updateConfig: a masked or empty apiKey is dropped from the update, the
\* rest is spread-merged onto this.config.  A field of newConfig is <<>>
\* when absent and <<value>> when given.
updateConfig(config, newConfig) ==
    LET keepKey == \/ newConfig.apiKey = <<>>
                   \/ newConfig.apiKey \in {<<"***">>, <<"******">>, <<"">>}
    IN  [config EXCEPT
           !.enabled = IF newConfig.enabled = <<>> THEN @ ELSE newConfig.enabled[1],
           !.apiKey  = IF keepKey THEN @ ELSE newConfig.apiKey[1],
           !.homeId  = IF newConfig.homeId = <<>> THEN @ ELSE newConfig.homeId[1]]

ConfigUpdates ==
    [enabled : {<<>>, <<TRUE>>, <<FALSE>>},
     apiKey  : {<<>>, <<"">>, <<"***">>, <<"key-1">>},
     homeId  : {<<>>, <<"home-1">>}]

\* The user saves the price settings
UpdateConfig(newConfig) ==
    /\ tConfig' = updateConfig(tConfig, newConfig)
    /\ tConfig' # tConfig
    /\ UNCHANGED <<cache, calls, influx, influxCacheLoaded, restoring>>
    /\ UNCHANGED <<engineVars, warnVars, tgVars, pubVars, queryVars>>

\* Updates of the key settings: the key absent, empty, masked in either
\* form, or one of two real keys
KeyUpdates ==
    [enabled : {<<>>, <<TRUE>>, <<FALSE>>},
     apiKey  : {<<>>, <<"">>, <<"***">>, <<"******">>, <<"key-1">>, <<"key-2">>},
     homeId  : {<<>>, <<"home-1">>}]

\* The user saves the price settings; the record of the request keeps the
\* config before it and the last key submitted so far that was neither
\* empty nor a mask
SubmitConfig(newConfig) ==
    /\ tConfig' = updateConfig(tConfig, newConfig)
    /\ query' =
         [op |-> "updateConfig", newConfig |-> newConfig, before |-> tConfig,
          lastRealKey |->
             IF /\ newConfig.apiKey # <<>>
                /\ newConfig.apiKey[1] \notin {"", "***", "******"}
             THEN newConfig.apiKey
             ELSE IF query.op = "updateConfig" THEN query.lastRealKey
             ELSE <<>>]
    /\ UNCHANGED <<cache, calls, influx, influxCacheLoaded, restoring>>
    /\ UNCHANGED <<engineVars, warnVars, tgVars, pubVars>>

\* getStatus: enabled, configured and hasCachedData of the status report
getStatus(config, cch) ==
    [enabled |-> config.enabled,
     configured |-> (config.apiKey # "" /\ config.apiKey # "***"),
     hasCachedData |-> (cch.currentPrice # <<>> /\ Len(cch.forecast) > 0)]

\* getCachedData returns { ...this.cache, config, lastUpdate }: a new outer
\* object whose currentPrice and forecast are the cache's own objects.  The
\* owner's cache after a caller has changed the value it was given:
\* reversing the forecast array or writing a field of currentPrice acts on
\* the shared object, assigning a new forecast to the copy does not.
getCachedDataThenEdit(cch, edit) ==
    CASE edit = "snapshot.forecast.reverse()" ->
           [cch EXCEPT !.forecast = Reverse(@)]
      [] edit = "snapshot.currentPrice.total = 0" ->
           IF cch.currentPrice = <<>> THEN cch
           ELSE [cch EXCEPT !.currentPrice = <<[@[1] EXCEPT !.total = 0]>>]
      [] OTHER -> cch

ReaderEdits ==
    {"snapshot.forecast.reverse()", "snapshot.currentPrice.total = 0",
     "snapshot.forecast = []"}

\* A caller of getCachedData changes what it was given
ReaderEditsSnapshot(edit) ==
    /\ cache' = getCachedDataThenEdit(cache, edit)
    /\ cache' # cache
    /\ UNCHANGED <<tConfig, calls, influx, influxCacheLoaded, restoring>>
    /\ UNCHANGED <<engineVars, warnVars, tgVars, pubVars, queryVars>>

PriceInit ==
    /\ tConfig = defaultConfig
    /\ cache = emptyCache
    /\ calls = <<>>
    /\ influx = emptyInflux
    /\ influxCacheLoaded = FALSE
    /\ restoring = <<>>

DoRefreshStart == \E by \in {"scheduler", "on_demand"} : RefreshStart(by)
DoRefreshResponse ==
    \E i \in 1..Len(calls), response \in ApiResponses : RefreshResponse(i, response)
DoRefreshSaved == \E i \in 1..Len(calls) : RefreshSaved(i)
DoUpdateConfig == \E newConfig \in ConfigUpdates : UpdateConfig(newConfig)

\* initializeInfluxCache: once per process the cache is replaced by what
\* the durable store holds, when it holds a current price
InitializeInfluxCache(level) ==
    /\ ~influxCacheLoaded
    /\ LET influxCache == loadCacheFromInfluxDB(influx, now, level)
       IN  /\ influxCache # <<>>
           /\ cache' = influxCache[1]
           /\ influxCacheLoaded' = TRUE
    /\ UNCHANGED <<tConfig, calls, influx, restoring>>
    /\ UNCHANGED <<engineVars, warnVars, tgVars, pubVars, queryVars>>

\* initializeInfluxCache up to its await: the flag is tested, the durable
\* store is queried, and the call waits for the rows
InitializeInfluxCacheStart(level) ==
    /\ ~influxCacheLoaded
    /\ restoring = <<>>
    /\ restoring' = <<[influxCache |-> loadCacheFromInfluxDB(influx, now, level),
                       cacheAtStart |-> cache,
                       doneAtStart |-> {i \in 1..Len(calls) : calls[i].pc = "done"}]>>
    /\ UNCHANGED <<tConfig, cache, calls, influx, influxCacheLoaded>>
    /\ UNCHANGED <<engineVars, warnVars, tgVars, pubVars, queryVars>>

\* initializeInfluxCache after its await: a cache that was found is
\* assigned to this.cache and the flag is set
InitializeInfluxCacheFinish ==
    /\ restoring # <<>>
    /\ restoring' = <<>>
    /\ IF restoring[1].influxCache # <<>>
       THEN /\ cache' = restoring[1].influxCache[1]
            /\ influxCacheLoaded' = TRUE
       ELSE UNCHANGED <<cache, influxCacheLoaded>>
    /\ UNCHANGED <<tConfig, calls, influx>>
    /\ UNCHANGED <<engineVars, warnVars, tgVars, pubVars, queryVars>>

PriceNext == DoRefreshStart \/ DoRefreshResponse \/ DoRefreshSaved \/ DoUpdateConfig

\* The provider and a caller of its read accessor
PriceReaderNext ==
    \/ PriceNext
    \/ \E edit \in ReaderEdits : ReaderEditsSnapshot(edit)

\* The settings of the provider under a sequence of updates
PriceConfigNext == \E newConfig \in KeyUpdates : SubmitConfig(newConfig)

\* Updates that switch the feature on with a key, and off
SwitchUpdates ==
    {[enabled |-> <<TRUE>>, apiKey |-> <<"key-1">>, homeId |-> <<>>],
     [enabled |-> <<FALSE>>, apiKey |-> <<>>, homeId |-> <<>>]}

\* The provider with a durable store that may fail
PriceFaultyNext ==
    \/ DoRefreshStart \/ DoRefreshResponse \/ DoRefreshSaved
    \/ \E newConfig \in SwitchUpdates : UpdateConfig(newConfig)
    \/ \E i \in 1..Len(calls), outcome \in StoreOutcomes \ {"ok"} :
          RefreshSaveFailed(i, outcome)

\* The provider with the start-up restore as the two steps around its await
PriceRestoreNext ==
    \/ PriceNext
    \/ \E level \in {"CHEAP", "UNKNOWN"} : InitializeInfluxCacheStart(level)
    \/ InitializeInfluxCacheFinish

\* The provider with the start-up restore of the cache
PriceStoreNext ==
    \/ PriceNext
    \/ \E level \in PriceLevels \cup {"UNKNOWN"} :
          /\ \/ level = "UNKNOWN"
             \/ \E q \in influx.current : q.level = level
          /\ InitializeInfluxCache(level)

-----------------------------------------------------------------------------
(* NotificationDispatcher (services/telegramService.js)                    *)

NoCall == [made |-> FALSE]

ChatIds == {"chat-1", "chat-2", "chat-3"}
BotTokens == {"", "token-1"}

\* What one axios.post to the sink may do: resolve, reject, or time out
\* after 10 s (a rejection as well)
SendOutcomes == {"ok", "error", "timeout"}

\* telegram defaultConfig: disabled, no token, no chat ids
telegramDefaultConfig == [enabled |-> FALSE, botToken |-> "", chatIds |-> <<>>]

RECURSIVE SendLoopFailFast(_, _, _)
\* A variant whose first failing send ends the loop
SendLoopFailFast(chatIds, outcomes, k) ==
    IF k > Len(chatIds) THEN [successCount |-> 0, attempts |-> <<>>]
    ELSE IF outcomes[k] # "ok"
    THEN [successCount |-> 0, attempts |-> <<[chatId |-> chatIds[k],
                                            outcome |-> outcomes[k]]>>]
    ELSE LET rest == SendLoopFailFast(chatIds, outcomes, k + 1)
         IN  [successCount |-> rest.successCount + 1,
              attempts |-> <<[chatId |-> chatIds[k], outcome |-> outcomes[k]]>>
                             \o rest.attempts]

RECURSIVE SendLoopRetrying(_, _, _)
\* A variant that sends once more to a sink whose send failed
SendLoopRetrying(chatIds, outcomes, k) ==
    IF k > Len(chatIds) THEN [successCount |-> 0, attempts |-> <<>>]
    ELSE LET rest == SendLoopRetrying(chatIds, outcomes, k + 1)
             attempt == [chatId |-> chatIds[k], outcome |-> outcomes[k]]
         IN  [successCount |-> rest.successCount
                                 + (IF outcomes[k] = "ok" THEN 1 ELSE 0),
              attempts |-> (IF outcomes[k] = "ok" THEN <<attempt>>
                            ELSE <<attempt, attempt>>) \o rest.attempts]

RECURSIVE SendLoopFrom(_, _, _)
\* for (const chatId of config.chatIds) { try { await axios.post(...);
\* successCount++ } catch (error) { log } }, from the k-th chat id on
SendLoopFrom(chatIds, outcomes, k) ==
    IF k > Len(chatIds) THEN [successCount |-> 0, attempts |-> <<>>]
    ELSE LET rest == SendLoopFrom(chatIds, outcomes, k + 1)
         IN  [successCount |-> rest.successCount
                                 + (IF outcomes[k] = "ok" THEN 1 ELSE 0),
              attempts |-> <<[chatId |-> chatIds[k], outcome |-> outcomes[k]]>>
                             \o rest.attempts]

SendLoop(chatIds, outcomes) == SendLoopFrom(chatIds, outcomes, 1)

\* broadcastMessage: the result and the send attempts made
broadcastMessage(config, outcomes) ==
    IF ~config.enabled \/ config.botToken = "" \/ Len(config.chatIds) = 0
    THEN [made |-> TRUE, result |-> FALSE, attempts |-> <<>>,
          configured |-> FALSE, chatIds |-> config.chatIds]
    ELSE LET r == SendLoop(config.chatIds, outcomes)
         IN  [made |-> TRUE, result |-> r.successCount > 0,
              attempts |-> r.attempts, configured |-> TRUE,
              chatIds |-> config.chatIds]

\* A message is broadcast; every sink answers in one of the three ways
BroadcastMessage(outcomes) ==
    /\ bc' = broadcastMessage(tgConfig, outcomes)
    /\ UNCHANGED tgConfig
    /\ UNCHANGED <<engineVars, warnVars, priceVars, pubVars, queryVars>>

\* addChatId
AddChatId(chatId) ==
    /\ Len(tgConfig.chatIds) < MaxChats
    /\ chatId \notin Range(tgConfig.chatIds)
    /\ tgConfig' = [tgConfig EXCEPT !.chatIds = Append(@, chatId)]
    /\ UNCHANGED bc
    /\ UNCHANGED <<engineVars, warnVars, priceVars, pubVars, queryVars>>

\* removeChatId: splice(index, 1)
RemoveChatId(chatId) ==
    /\ chatId \in Range(tgConfig.chatIds)
    /\ tgConfig' = [tgConfig EXCEPT
                      !.chatIds = FilterSeq(@, Range(@) \ {chatId})]
    /\ UNCHANGED bc
    /\ UNCHANGED <<engineVars, warnVars, priceVars, pubVars, queryVars>>

Digits == {"0", "1", "2", "3", "4", "5", "6", "7", "8", "9"}

RECURSIVE AllDigits(_)
AllDigits(chars) ==
    chars = <<>> \/ (Head(chars) \in Digits /\ AllDigits(Tail(chars)))

\* /^-?\d+$/.test(chatIdStr), on the text as a sequence of characters
MatchesChatIdFormat(chars) ==
    LET digits == IF chars # <<>> /\ Head(chars) = "-" THEN Tail(chars)
                  ELSE chars
    IN  digits # <<>> /\ AllDigits(digits)

RECURSIVE ToText(_)
\* chatId.toString()
ToText(chars) == IF chars = <<>> THEN "" ELSE Head(chars) \o ToText(Tail(chars))

\* addChatId: a new id is pushed and saved, a known one is left alone
addChatId(config, chatId) ==
    IF ToText(chatId) \notin Range(config.chatIds)
    THEN [config EXCEPT !.chatIds = Append(@, ToText(chatId))]
    ELSE config

\* POST /telegram/chat-ids: 400 without a chat id or when it does not match
\* the format, otherwise addChatId.  body.chatId is <<>> when absent.
postChatId(config, body) ==
    IF body.chatId = <<>> THEN [config |-> config, status |-> 400]
    ELSE IF ~MatchesChatIdFormat(body.chatId)
    THEN [config |-> config, status |-> 400]
    ELSE [config |-> addChatId(config, body.chatId), status |-> 200]

\* A request to POST /telegram/chat-ids arrives
PostChatId(body) ==
    /\ Len(tgConfig.chatIds) < MaxChats
    /\ LET r == postChatId(tgConfig, body)
       IN  /\ tgConfig' = r.config
           /\ query' = [op |-> "POST /telegram/chat-ids", body |-> body,
                        status |-> r.status, chatIdsBefore |-> tgConfig.chatIds]
    /\ UNCHANGED bc
    /\ UNCHANGED <<engineVars, warnVars, priceVars, pubVars>>

ChatIdBodies ==
    {[chatId |-> c] :
        c \in {<<>>, <<"4", "2">>, <<"-", "1", "0", "0">>, <<"7">>,
               <<"a", "b", "c">>, <<"4", "2", "a">>, <<"-">>,
               <<"4", "-", "2">>}}

\* botToken.slice(-4) of the tokens used here
LastFour(botToken) ==
    CASE botToken = "token-1" -> "en-1"
      [] botToken = "token-2" -> "en-2"
      [] OTHER -> botToken

\* The masked form under which GET /telegram/config shows the stored token:
\* ten bullet characters (written here as asterisks) and the last four
\* characters of the token
MaskedToken(botToken) == "**********" \o LastFour(botToken)

\* telegram updateConfig followed by saveConfig: the merged document is
\* stored unless the write fails
telegramUpdateConfig(config, enabled, botToken, diskOk) ==
    IF ~diskOk THEN config
    ELSE [config EXCEPT !.enabled = enabled,
                        !.botToken = IF botToken = <<>> THEN @ ELSE botToken[1]]

\* A variant of the route that stores the token before it is tested
postTelegramConfigSaveFirst(config, body, testOk, diskOk) ==
    LET enabled == IF body.enabled # <<>> THEN body.enabled[1] ELSE config.enabled
        tested  == /\ body.botToken # <<>> /\ body.botToken[1] # ""
                   /\ body.botToken[1] # MaskedToken(config.botToken)
        stored  == telegramUpdateConfig(config, enabled,
                      IF tested THEN body.botToken ELSE <<>>, diskOk)
    IN  [config |-> stored, tested |-> tested,
         status |-> IF tested /\ ~testOk THEN 400 ELSE 200]

\* POST /telegram/config: a token that is given and is not the masked form
\* of the stored one is tested with testBotToken; 400 when the test fails,
\* otherwise enabled (the stored value when absent) and the token are
\* stored; without such a token only enabled is stored.  A field of the
\* body is <<>> when absent.
postTelegramConfig(config, body, testOk, diskOk) ==
    LET enabled == IF body.enabled # <<>> THEN body.enabled[1] ELSE config.enabled
        tested  == /\ body.botToken # <<>> /\ body.botToken[1] # ""
                   /\ body.botToken[1] # MaskedToken(config.botToken)
    IN  IF tested /\ ~testOk
        THEN [config |-> config, tested |-> TRUE, status |-> 400]
        ELSE [config |-> telegramUpdateConfig(config, enabled,
                            IF tested THEN body.botToken ELSE <<>>, diskOk),
              tested |-> tested, status |-> 200]

TelegramConfigBodies ==
    [enabled : {<<>>, <<TRUE>>, <<FALSE>>},
     botToken : {<<>>, <<"">>, <<"token-1">>, <<"token-2">>,
                 <<MaskedToken("token-1")>>}]

\* A request to POST /telegram/config arrives; the sink accepts or rejects
\* the token, the write of the document succeeds or fails
PostTelegramConfig(body, testOk, diskOk) ==
    /\ LET r == postTelegramConfig(tgConfig, body, testOk, diskOk)
       IN  /\ tgConfig' = r.config
           /\ query' = [op |-> "POST /telegram/config", body |-> body,
                        testOk |-> testOk, diskOk |-> diskOk,
                        tested |-> r.tested, status |-> r.status,
                        before |-> tgConfig]
    /\ UNCHANGED bc
    /\ UNCHANGED <<engineVars, warnVars, priceVars, pubVars>>

TelegramConfigNext ==
    \E body \in TelegramConfigBodies, testOk \in BOOLEAN, diskOk \in BOOLEAN :
        PostTelegramConfig(body, testOk, diskOk)

\* A notification rule: rule.warningType and rule.ruleId are "" when absent
NotificationRules ==
    [enabled : BOOLEAN, type : {"warning", "rule"},
     warningType : {"", "A"}, ruleId : {"", "A"}]

\* shouldNotifyForWarning
shouldNotifyForWarning(config, warningTypeId) ==
    IF ~config.enabled THEN FALSE
    ELSE \E i \in 1..Len(config.notificationRules) :
            LET rule == config.notificationRules[i]
            IN  /\ rule.enabled
                /\ rule.type = "warning"
                /\ rule.warningType = warningTypeId

\* A variant that lets any enabled rule naming the id pass
shouldNotifyForRuleAnyType(config, ruleId) ==
    IF ~config.enabled THEN FALSE
    ELSE \E i \in 1..Len(config.notificationRules) :
            LET rule == config.notificationRules[i]
            IN  rule.enabled /\ (rule.ruleId = ruleId \/ rule.warningType = ruleId)

\* shouldNotifyForRule
shouldNotifyForRule(config, ruleId) ==
    IF ~config.enabled THEN FALSE
    ELSE \E i \in 1..Len(config.notificationRules) :
            LET rule == config.notificationRules[i]
            IN  /\ rule.enabled
                /\ rule.type = "rule"
                /\ rule.ruleId = ruleId

\* Rule lists of a notification config: none, one rule, or one rule after a
\* disabled or an enabled warning rule for "A"
NotificationRuleLists ==
    {<<>>} \cup {<<r>> : r \in NotificationRules}
           \cup {<<[enabled |-> e, type |-> "warning", warningType |-> "A",
                    ruleId |-> ""], r>> :
                    e \in BOOLEAN, r \in NotificationRules}

\* A warning event or a rule trigger asks whether it is to be forwarded
QueryShouldNotify(enabled, rules, kind, id) ==
    /\ LET config == [enabled |-> enabled, notificationRules |-> rules]
       IN  query' = [op |-> "shouldNotify", enabled |-> enabled,
                     rules |-> rules, kind |-> kind, id |-> id,
                     result |-> IF kind = "warning"
                                THEN shouldNotifyForWarning(config, id)
                                ELSE shouldNotifyForRule(config, id)]
    /\ UNCHANGED <<engineVars, warnVars, priceVars, tgVars, pubVars>>

NotifyNext ==
    \E enabled \in BOOLEAN, rules \in NotificationRuleLists,
       kind \in {"warning", "rule"}, id \in {"A", "B"} :
        QueryShouldNotify(enabled, rules, kind, id)

\* updateConfig({enabled, botToken}): spread-merge onto the stored config
UpdateTelegramConfig(enabled, botToken) ==
    /\ tgConfig' = [tgConfig EXCEPT !.enabled = enabled, !.botToken = botToken]
    /\ tgConfig' # tgConfig
    /\ UNCHANGED bc
    /\ UNCHANGED <<engineVars, warnVars, priceVars, pubVars, queryVars>>

TelegramInit ==
    /\ tgConfig = telegramDefaultConfig
    /\ bc = NoCall

DoBroadcastMessage ==
    \E outcomes \in [1..Len(tgConfig.chatIds) -> SendOutcomes] :
        BroadcastMessage(outcomes)
DoAddChatId == \E chatId \in ChatIds : AddChatId(chatId)
DoRemoveChatId == \E chatId \in ChatIds : RemoveChatId(chatId)
DoUpdateTelegramConfig ==
    \E enabled \in BOOLEAN, botToken \in BotTokens :
        UpdateTelegramConfig(enabled, botToken)

TelegramNext ==
    DoBroadcastMessage \/ DoAddChatId \/ DoRemoveChatId \/ DoUpdateTelegramConfig

-----------------------------------------------------------------------------
(* CommandPublisher (design specification 4.3/4.4, src/unnamed/part_002)   *)

NoPublish == [made |-> FALSE]

MaxInverters == 2   \* configured inverters

\* Inverter families; the command documentation calls the modern one `new`
InverterTypes == {"legacy", "modern", "hybrid"}

\* Modes a published decision may carry
Modes ==
    {"Solar first", "Solar only", "Utility first", "Solar/Battery/Utility",
     "Solar and utility simultaneously", "Solar/Utility/Battery"}

\* Modes that imply no grid use
NoGridModes == {"Solar first", "Solar only", "Solar/Battery/Utility"}

\* Legacy vocabulary: the mode collapses to grid_charge
GridCharge(mode) == IF mode \in NoGridModes THEN "Disabled" ELSE "Enabled"

\* Modern vocabulary: the selection table (charger priority, output priority)
ModernSettings(mode) ==
    CASE mode = "Utility first" ->
           [chargerPriority |-> "Utility first", outputPriority |-> "Utility first"]
      [] mode = "Solar/Battery/Utility" ->
           [chargerPriority |-> "Solar first",
            outputPriority |-> "Solar/Battery/Utility"]
      [] mode = "Solar and utility simultaneously" ->
           [chargerPriority |-> "Solar and utility simultaneously",
            outputPriority |-> "Solar/Utility/Battery"]
      [] mode = "Solar only" ->
           [chargerPriority |-> "Solar only", outputPriority |-> "Solar first"]
      [] mode = "Solar/Utility/Battery" ->
           [chargerPriority |-> "Solar and utility simultaneously",
            outputPriority |-> "Solar/Utility/Battery"]
      [] OTHER ->
           [chargerPriority |-> "Solar first",
            outputPriority |-> "Solar/Battery/Utility"]

LegacyCommands(mode) ==
    <<[parameter |-> "grid_charge", value |-> GridCharge(mode)]>>

ModernCommands(mode) ==
    <<[parameter |-> "charger_source_priority",
       value |-> ModernSettings(mode).chargerPriority],
      [parameter |-> "output_source_priority",
       value |-> ModernSettings(mode).outputPriority]>>

\* A variant that sends a hybrid inverter the charger priority only, next to
\* grid_charge
CommandsForHybridChargerOnly(type, mode) ==
    CASE type = "legacy" -> LegacyCommands(mode)
      [] type = "modern" -> ModernCommands(mode)
      [] OTHER -> LegacyCommands(mode) \o <<ModernCommands(mode)[1]>>

\* The (parameter, value) pairs of one inverter for a mode
CommandsFor(type, mode) ==
    CASE type = "legacy" -> LegacyCommands(mode)
      [] type = "modern" -> ModernCommands(mode)
      [] OTHER -> LegacyCommands(mode) \o ModernCommands(mode)

\* The commands of inverter k with the outcome of its publish
Handed(types, mode, outcomes, k) ==
    LET cs == CommandsFor(types[k], mode)
    IN  [i \in 1..Len(cs) |->
           [inverter |-> k, parameter |-> cs[i].parameter,
            value |-> cs[i].value, success |-> outcomes[k] = "ok"]]

RECURSIVE PublishLoopStopOnFailure(_, _, _, _)
\* A variant that gives up at the first inverter whose publish fails
PublishLoopStopOnFailure(types, mode, outcomes, k) ==
    IF k > Len(types) THEN [commands |-> <<>>, failures |-> {}]
    ELSE IF outcomes[k] # "ok"
    THEN [commands |-> Handed(types, mode, outcomes, k), failures |-> {k}]
    ELSE LET rest == PublishLoopStopOnFailure(types, mode, outcomes, k + 1)
         IN  [commands |-> Handed(types, mode, outcomes, k) \o rest.commands,
              failures |-> rest.failures]

RECURSIVE PublishLoop(_, _, _, _)
\* for (let i = 1; i <= numInverters; i++): every inverter's commands are
\* handed to the transport, a failure is recorded and the loop goes on
PublishLoop(types, mode, outcomes, k) ==
    IF k > Len(types) THEN [commands |-> <<>>, failures |-> {}]
    ELSE LET rest == PublishLoop(types, mode, outcomes, k + 1)
         IN  [commands |-> Handed(types, mode, outcomes, k) \o rest.commands,
              failures |-> (IF outcomes[k] # "ok" THEN {k} ELSE {})
                              \cup rest.failures]

\* A published decision is translated and handed to the transport
PublishDecision(mode, outcomes) ==
    /\ LET r == PublishLoop(inverters, mode, outcomes, 1)
       IN  published' = [made |-> TRUE, mode |-> mode, types |-> inverters,
                         outcomes |-> outcomes, commands |-> r.commands,
                         failures |-> r.failures]
    /\ UNCHANGED inverters
    /\ UNCHANGED <<engineVars, warnVars, priceVars, tgVars, queryVars>>

\* The user configures one more inverter
ConfigureInverter(type) ==
    /\ Len(inverters) < MaxInverters
    /\ inverters' = Append(inverters, type)
    /\ UNCHANGED published
    /\ UNCHANGED <<engineVars, warnVars, priceVars, tgVars, queryVars>>

PublisherInit ==
    /\ inverters = <<>>
    /\ published = NoPublish

PublisherNext ==
    \/ \E mode \in Modes, outcomes \in [1..Len(inverters) -> {"ok", "failed"}] :
           PublishDecision(mode, outcomes)
    \/ \E type \in InverterTypes : ConfigureInverter(type)

-----------------------------------------------------------------------------
(* Read accessors: the pure functions, applied to drawn inputs             *)

NoQuery == [op |-> "none"]

\* Telemetry for one evaluation: battery levels around targetSoC, 50 and 90,
\* solar power at 0, below, at and above twice the load, grid voltages at
\* and beyond both limits
EvalSnapshots ==
    {Snap(soc, pv, 1000, gv) :
        soc \in {40, 49, 50, 65, 80, 89, 90, 95},
        pv \in {0, 1500, 2000, 2001, 3000},
        gv \in {199, 200, 230, 250, 251}}

\* Price configs of an evaluation: the default and a raised targetSoC
EvalConfigs == {defaultConfig, [defaultConfig EXCEPT !.targetSoC = 95]}

\* maxPriceThreshold: null, or a price in hundredths
QueryThresholds == {[set |-> FALSE, value |-> 0], [set |-> TRUE, value |-> 2000]}

\* Price configs of a price query: levels on or off, threshold unset or set
QueryConfigs ==
    {[defaultConfig EXCEPT !.usePriceLevels = u, !.maxPriceThreshold = m] :
        u \in BOOLEAN, m \in QueryThresholds}

\* Price points handed to isPriceGood: none, or a point (hundredths)
QueryPoints ==
    {<<>>, <<Point(1000, "CHEAP", 0)>>, <<Point(3000, "CHEAP", 0)>>,
     <<Point(1000, "EXPENSIVE", 0)>>, <<Point(2000, "EXPENSIVE", 0)>>}

\* Hourly forecast, startsAt in minutes
HourlyForecast ==
    <<Point(3000, "EXPENSIVE", 60), Point(1000, "CHEAP", 120),
      Point(1000, "CHEAP", 180), Point(2000, "NORMAL", 240)>>

\* A forecast with hours missing between its two entries
GappedForecast == <<Point(3000, "EXPENSIVE", 60), Point(1000, "CHEAP", 1800)>>

\* A forecast in the order of a response whose list is not ascending
UnorderedForecast == <<Point(1000, "CHEAP", 180), Point(1000, "CHEAP", 120)>>

\* Caches a query may find
QueryCaches ==
    {emptyCache,
     [currentPrice |-> <<Point(2000, "NORMAL", 0)>>, forecast |-> <<>>],
     [currentPrice |-> <<>>, forecast |-> HourlyForecast],
     [currentPrice |-> <<Point(1000, "EXPENSIVE", 0)>>, forecast |-> HourlyForecast],
     [currentPrice |-> <<Point(1000, "CHEAP", 0)>>, forecast |-> GappedForecast],
     [currentPrice |-> <<Point(1000, "CHEAP", 0)>>, forecast |-> UnorderedForecast]}

\* Caches of a pair of queries: without and with a forecast
PairCaches ==
    {emptyCache, [currentPrice |-> <<>>, forecast |-> HourlyForecast]}

\* Instants of a query, minutes: before, inside and after the hourly forecast
QueryTimes == {0, 60, 130, 240}

QueryCounts == {0, 1, 2, 6}
QueryHorizons == {1, 2, 24}

\* The engine evaluates one (snapshot, price, config)
QueryEvaluate(snap, price, config) ==
    /\ query' = [op |-> "evaluate", snap |-> snap, price |-> price,
                 config |-> config, result |-> Evaluate(snap, price, config)]
    /\ UNCHANGED <<engineVars, warnVars, priceVars, tgVars, pubVars>>

\* isPriceGood(point) against a config and a cache at time t
QueryIsPriceGood(point, config, cch, t) ==
    /\ query' = [op |-> "isPriceGood", point |-> point, config |-> config,
                 cache |-> cch, t |-> t,
                 result |-> isPriceGood(point, config, cch, t)]
    /\ UNCHANGED <<engineVars, warnVars, priceVars, tgVars, pubVars>>

\* getCheapestHours(count, hoursAhead) against a cache at time t
QueryCheapestHours(cch, t, count, hoursAhead) ==
    /\ LET r == getCheapestHours(cch, t, count, hoursAhead)
       IN  query' = [op |-> "getCheapestHours", forecast |-> cch.forecast,
                     t |-> t, count |-> count, hoursAhead |-> hoursAhead,
                     result |-> r.result, forecastAfter |-> r.forecast]
    /\ UNCHANGED <<engineVars, warnVars, priceVars, tgVars, pubVars>>

\* isPriceGood for two price points of one level, each against its own
\* forecast and maxPriceThreshold
QueryIsPriceGoodPair(pointA, pointB, config, thresholdA, thresholdB, cchA, cchB, t) ==
    /\ pointA[1].level = pointB[1].level
    /\ query' = [op |-> "isPriceGoodPair", pointA |-> pointA, pointB |-> pointB,
                 config |-> config, thresholdA |-> thresholdA,
                 thresholdB |-> thresholdB, cacheA |-> cchA, cacheB |-> cchB,
                 t |-> t,
                 resultA |-> isPriceGood(pointA,
                               [config EXCEPT !.maxPriceThreshold = thresholdA],
                               cchA, t),
                 resultB |-> isPriceGood(pointB,
                               [config EXCEPT !.maxPriceThreshold = thresholdB],
                               cchB, t)]
    /\ UNCHANGED <<engineVars, warnVars, priceVars, tgVars, pubVars>>

\* calculateAveragePrice(hours) against a cache at time t
QueryAveragePrice(cch, t, hours) ==
    /\ query' = [op |-> "calculateAveragePrice", forecast |-> cch.forecast,
                 t |-> t, hours |-> hours,
                 result |-> calculateAveragePrice(cch, t, hours)]
    /\ UNCHANGED <<engineVars, warnVars, priceVars, tgVars, pubVars>>

\* Rule lists a store may hold when the monitor is queried
CooldownRule == WarnRule("A", "battery_soc", "lt", 15, TRUE, 60)
DaytimeRule == [CooldownRule EXCEPT !.timeCondition = "daytime"]
OtherRule == WarnRule("B", "load", "gt", 100, TRUE, 10)

QueryRuleLists ==
    {<<>>, <<CooldownRule>>, <<CooldownRule, OtherRule>>,
     <<DaytimeRule>>, <<DaytimeRule, OtherRule>>}

\* Histories of up to two events, newest first or not, of rule A and of a
\* rule id "C" that no list holds
QueryEvents ==
    [warningTypeId : {"A", "C"}, timestamp : {1020, 1030}, value : {<<10>>}]
QueryHistories ==
    {<<>>} \cup {<<e>> : e \in QueryEvents}
           \cup {<<e, f>> : e \in QueryEvents, f \in QueryEvents}

\* Local times of an evaluation: 07:59, 08:00, 17:59, 18:00, 18:59, 19:00
DayTimes == {479, 480, 1079, 1080, 1139, 1140}

\* The store of a query: a parsable file with these rules and this history
QueryStore(types, history) ==
    [file |-> [warnDefaultConfig EXCEPT !.warningTypes = types,
                                        !.warningHistory = history],
     ok |-> TRUE, def |-> emptyWarnDefault]

\* isWarningOnCooldown(id) on a store at time t
QueryCooldown(types, history, id, t) ==
    /\ query' = [op |-> "isWarningOnCooldown", types |-> types,
                 history |-> history, id |-> id, t |-> t,
                 result |-> isWarningOnCooldown(QueryStore(types, history), id, t)]
    /\ UNCHANGED <<engineVars, warnVars, priceVars, tgVars, pubVars>>

\* checkWarnings(systemState) on a store without history at local time t
QueryCheckWarnings(types, systemState, t) ==
    /\ query' = [op |-> "checkWarnings", types |-> types,
                 systemState |-> systemState, t |-> t,
                 result |-> checkWarnings(QueryStore(types, <<>>), systemState,
                                          t, TRUE).triggered]
    /\ UNCHANGED <<engineVars, warnVars, priceVars, tgVars, pubVars>>

\* Rules offered to one evaluation: every operator the evaluation knows and
\* two it does not, with and without the daytime window, and a disabled rule
EvaluatedOperators == {"lt", "gt", "eq", "lte", "gte", "ne", "between"}
EvaluatedRules ==
    {[CooldownRule EXCEPT !.condition = c, !.timeCondition = w] :
        c \in EvaluatedOperators, w \in {"none", "daytime"}}
    \cup {[CooldownRule EXCEPT !.enabled = FALSE]}

\* battery_soc absent, 0, below, at and above the threshold of 15
EvaluatedSnapshots ==
    {[battery_soc |-> v, load |-> <<500>>] :
        v \in {<<>>, <<0>>, <<15>>, <<20>>}}

\* No earlier event, or one of rule A at 17:00
EvaluatedHistories ==
    {<<>>, <<[warningTypeId |-> "A", timestamp |-> 1020, value |-> <<10>>]>>}

\* 17:10 (inside the cooldown of an event at 17:00) and 18:01 (outside it)
EvaluatedTimes == {1030, 1081}

\* The global switch is set, then checkWarnings(systemState) runs on a store
\* holding one rule and this history
QueryEvaluateRule(monitorEnabled, rule, history, systemState, t) ==
    /\ LET st == setWarningSystemEnabled(QueryStore(<<rule>>, history),
                                         monitorEnabled, TRUE)
           r  == checkWarnings(st, systemState, t, TRUE)
       IN  query' = [op |-> "evaluate", monitorEnabled |-> monitorEnabled,
                     rule |-> rule, history |-> history,
                     systemState |-> systemState, t |-> t,
                     result |-> r.triggered,
                     historyAfter |-> warn_getConfig(r.st).warningHistory]
    /\ UNCHANGED <<engineVars, warnVars, priceVars, tgVars, pubVars>>

QueryInit == query = NoQuery

EvaluateNext ==
    \E snap \in EvalSnapshots, price \in EnginePrices, config \in EvalConfigs :
        QueryEvaluate(snap, price, config)

PriceQueryNext ==
    \/ \E point \in QueryPoints, config \in QueryConfigs, cch \in QueryCaches,
          t \in QueryTimes :
           QueryIsPriceGood(point, config, cch, t)
    \/ \E cch \in QueryCaches, t \in QueryTimes, count \in QueryCounts,
          hoursAhead \in QueryHorizons :
           QueryCheapestHours(cch, t, count, hoursAhead)
    \/ \E pointA, pointB \in QueryPoints \ {<<>>}, u \in BOOLEAN,
          thresholdA, thresholdB \in QueryThresholds,
          cchA, cchB \in PairCaches, t \in {0, 240} :
           QueryIsPriceGoodPair(pointA, pointB,
                                [defaultConfig EXCEPT !.usePriceLevels = u],
                                thresholdA, thresholdB, cchA, cchB, t)
    \/ \E cch \in QueryCaches, t \in QueryTimes, hours \in QueryHorizons :
           QueryAveragePrice(cch, t, hours)

-----------------------------------------------------------------------------
(* Persisted configuration documents: loading                              *)

\* The content of a config file: missing, a JSON document, or text that
\* JSON.parse rejects.  doc names the document ("defaults": what the
\* service writes for a fresh file, "user": a config the user saved).
FileMissing == [kind |-> "missing", doc |-> "", payload |-> ""]
FileJson(doc) == [kind |-> "json", doc |-> doc, payload |-> ""]
FileCorrupt(payload) == [kind |-> "corrupt", doc |-> "", payload |-> payload]

\* The price config a document name stands for
TibberDoc(doc) ==
    IF doc = "defaults" THEN defaultConfig
    ELSE [defaultConfig EXCEPT !.enabled = TRUE, !.apiKey = "key-1"]

\* A variant of loadConfig that falls back to the defaults without a backup
loadConfigNoBackup(fs, t, backupOk, saveOk) ==
    IF fs.content.kind = "json"
    THEN [fs |-> fs, config |-> TibberDoc(fs.content.doc)]
    ELSE [fs |-> [fs EXCEPT !.content = IF saveOk THEN FileJson("defaults")
                                       ELSE @],
          config |-> defaultConfig]

\* TibberService.loadConfig at time t: a parsable file is returned as it
\* is; a corrupted one is copied to <configFile>.corrupted.<Date.now()>
\* (a file of that name is overwritten; a failing copy is caught by the
\* outer try), and then, as for a missing
\* file, the defaults are written (a failing write is caught) and returned.
\* backupOk and saveOk say whether the two writeFileSync calls succeed.
loadConfig(fs, t, backupOk, saveOk) ==
    IF fs.content.kind = "json"
    THEN [fs |-> fs, config |-> TibberDoc(fs.content.doc)]
    ELSE LET backedUp ==
                 IF fs.content.kind = "corrupt" /\ backupOk
                 THEN {b \in fs.backups : b.stamp # t}
                        \cup {[suffix |-> ".corrupted.", stamp |-> t,
                               payload |-> fs.content.payload]}
                 ELSE fs.backups
         IN  [fs |-> [content |-> IF saveOk THEN FileJson("defaults")
                                  ELSE fs.content,
                      backups |-> backedUp],
              config |-> defaultConfig]

\* getConfig of warningService and of telegramService: ensureConfigFile
\* writes the defaults when the file is missing; a parsable file is
\* returned (telegram: merged over the defaults); a corrupted one makes
\* the call return a copy of defaultConfig and is left as it is.
getConfig(fs) ==
    CASE fs.content.kind = "missing" ->
           [fs |-> [fs EXCEPT !.content = FileJson("defaults")],
            config |-> "defaults"]
      [] fs.content.kind = "json" -> [fs |-> fs, config |-> fs.content.doc]
      [] OTHER -> [fs |-> fs, config |-> "defaults"]

\* File systems a service may find at start-up or at a read
StoredFiles ==
    {FileMissing, FileJson("defaults"), FileJson("user"),
     FileCorrupt("{\"enabled\": tru"), FileCorrupt("")}
OldBackups ==
    {{}, {[suffix |-> ".corrupted.", stamp |-> 1000, payload |-> "old"]}}
LoadTimes == {1000, 2000, 3000}

\* The price provider is constructed
QueryLoadConfig(fs, t, backupOk, saveOk) ==
    /\ LET r == loadConfig(fs, t, backupOk, saveOk)
       IN  query' = [op |-> "loadConfig", before |-> fs, t |-> t,
                     backupOk |-> backupOk, saveOk |-> saveOk,
                     after |-> r.fs, config |-> r.config]
    /\ UNCHANGED <<engineVars, warnVars, priceVars, tgVars, pubVars>>

\* The warning monitor or the notification dispatcher reads its document
QueryGetConfig(service, fs) ==
    /\ LET r == getConfig(fs)
       IN  query' = [op |-> "getConfig", service |-> service, before |-> fs,
                     after |-> r.fs, config |-> r.config]
    /\ UNCHANGED <<engineVars, warnVars, priceVars, tgVars, pubVars>>

StorageNext ==
    \/ \E content \in StoredFiles, backups \in OldBackups, t \in LoadTimes,
          backupOk \in BOOLEAN, saveOk \in BOOLEAN :
           QueryLoadConfig([content |-> content, backups |-> backups], t,
                           backupOk, saveOk)
    \/ \E service \in {"warningService", "telegramService"},
          content \in StoredFiles, backups \in OldBackups :
           QueryGetConfig(service, [content |-> content, backups |-> backups])

\* The request boundary: rules and chat ids arrive through the routes
ValidationNext ==
    \/ \E body \in ValidationBodies, id \in RuleIds : PostWarningType(body, id)
    \/ \E body \in ChatIdBodies : PostChatId(body)

WarnEvaluateNext ==
    \E monitorEnabled \in BOOLEAN, rule \in EvaluatedRules,
       history \in EvaluatedHistories, systemState \in EvaluatedSnapshots,
       t \in EvaluatedTimes :
        QueryEvaluateRule(monitorEnabled, rule, history, systemState, t)

WarnQueryNext ==
    \/ \E types \in QueryRuleLists, history \in QueryHistories,
          id \in {"A", "B", "C"}, t \in {1030, 1079, 1081} :
           QueryCooldown(types, history, id, t)
    \/ \E types \in QueryRuleLists, systemState \in WarnSnapshots,
          t \in DayTimes :
           QueryCheckWarnings(types, systemState, t)

-----------------------------------------------------------------------------
(* DecisionEngine: properties                                              *)

\* C1: whenever battery_soc >= targetSoC or grid_voltage is below 200 V or
\* above 250 V, the decision is STOP_CHARGING with mode "Solar first",
\* whatever the price level, pv_power and load are.
C1_SafetyOverrideWins ==
    (lastDecision # NoDecision /\
       (\/ lastDecision.snap.battery_soc >= defaultConfig.targetSoC
        \/ lastDecision.snap.grid_voltage < 200
        \/ lastDecision.snap.grid_voltage > 250))
    => (lastDecision.decision = "STOP_CHARGING" /\ lastDecision.mode = "Solar first")

\* C1 witness: a full battery under a very cheap price and a strong solar
\* surplus has been evaluated
C1_Witness ==
    /\ lastDecision # NoDecision
    /\ lastDecision.snap.battery_soc = 82
    /\ lastDecision.snap.grid_voltage = 230
    /\ lastDecision.snap.pv_power = 3000
    /\ lastDecision.price.level = "VERY_CHEAP"
    /\ lastDecision.decision = "STOP_CHARGING"

\* C2: in the active-control state a tick hands its commands to
\* CommandPublisher exactly when its mode differs from the mode of the last
\* published decision, so equal consecutive modes are published once: the
\* publish log never holds the same mode twice in a row.
C2_EdgeTriggeredPublish ==
    /\ (lastDecision # NoDecision /\ lastDecision.active)
         => (lastDecision.published
               <=> (\/ lastDecision.prevPublished = NoDecision
                    \/ lastDecision.prevPublished.mode # lastDecision.mode))
    /\ (lastDecision # NoDecision /\ lastDecision.published)
         => (/\ publishLog # <<>>
             /\ publishLog[Len(publishLog)]
                  = [tick |-> lastDecision.tick, mode |-> lastDecision.mode])
    /\ \A i \in 1..(Len(publishLog) - 1) : publishLog[i].mode # publishLog[i+1].mode

\* C2 witness: two ticks in the active state computed the same mode and one
\* publish event exists
C2_Witness ==
    /\ lastDecision # NoDecision
    /\ lastDecision.tick = 2
    /\ firstDecision.active /\ lastDecision.active
    /\ firstDecision.mode = lastDecision.mode
    /\ firstDecision.published /\ ~lastDecision.published
    /\ Len(publishLog) = 1

\* C3: while the learner flag is off every finished tick is still logged,
\* but no step hands a command to CommandPublisher.
C3_LearnerGate ==
    [][/\ (~learnerModeActive => publishLog' = publishLog)
       /\ (inflight' # inflight /\ tickCount' = tickCount
             => loggedCount' = loggedCount + 1 /\ lastDecision' # lastDecision)]_vars

\* C3 witness: a tick ran with the flag off, computed a mode that differs
\* from the last published one, and was logged but not published
C3_Witness ==
    /\ ~learnerModeActive
    /\ lastDecision # NoDecision
    /\ ~lastDecision.active
    /\ lastDecision.prevPublished # NoDecision
    /\ lastDecision.prevPublished.mode # lastDecision.mode
    /\ ~lastDecision.published
    /\ loggedCount = lastDecision.tick

-----------------------------------------------------------------------------
(* WarningMonitor: properties                                              *)

\* The history as the monitor's accessors read it
WarningHistory == warn_getConfig(WarnStore).warningHistory

\* The stored low-battery rule with the 60 minute cooldown, enabled
CooldownRuleStored ==
    getWarningTypeById(WarnStore, "A") # <<>>
    /\ getWarningTypeById(WarnStore, "A")[1].enabled
    /\ getWarningTypeById(WarnStore, "A")[1].cooldownMinutes = 60

EventOf(events, id) == \E i \in 1..Len(events) : events[i].warningTypeId = id

\* C6: a rule with cooldownMinutes = 60 that produced an event at T produces
\* no further event at an evaluation before T+60, whatever the other rules
\* do in between, and produces one at an evaluation at T+61 or later whose
\* snapshot meets its condition.
C6_Cooldown ==
    [][(wChecks' = wChecks + 1 /\ CooldownRuleStored /\ wLastTrigger["A"] # <<>>)
         => /\ (now < wLastTrigger["A"][1] + 60 => ~EventOf(wReturned', "A"))
            /\ ((now >= wLastTrigger["A"][1] + 61
                 /\ wSnapshot'.battery_soc # <<>>
                 /\ wSnapshot'.battery_soc[1] < 15)
                  => EventOf(wReturned', "A"))]_vars

\* C7: the warning history holds at most maxHistoryItems events, and exactly
\* the most recent min(n, maxHistoryItems) of the n events ever triggered,
\* newest at the head.
C7_HistoryBoundedFifo ==
    /\ Len(WarningHistory) <= MaxHistoryItems
    /\ Len(WarningHistory) = Min(wTriggered, MaxHistoryItems)
    /\ WarningHistory = wRecent

-----------------------------------------------------------------------------
(* PriceProvider and NotificationDispatcher: properties                    *)

\* C8: a refresh that fails (transport failure, rejected credentials,
\* malformed response, disabled feature, missing key) returns false instead
\* of throwing and leaves currentPrice and forecast as they were: the step in
\* which it fails changes nothing, it has assigned nothing before, and when
\* no other refresh wrote the cache is the one it started with.
C8_FailedRefreshKeepsCache ==
    /\ [](\A i \in 1..Len(calls) :
            /\ calls[i].pc = "done" => calls[i].result \in {"true", "false"}
            /\ calls[i].result = "false" =>
                 /\ ~calls[i].wrote
                 /\ (\A j \in 1..Len(calls) : ~calls[j].wrote)
                      => cache = calls[i].cacheBefore)
    /\ [][\A i \in 1..Len(calls') :
            (calls'[i].result = "false"
               /\ (i > Len(calls) \/ calls[i].result # "false"))
            => cache' = cache]_vars

\* C8 witness: with prices cached by an earlier refresh, a later refresh sent
\* its request, failed, and the cache still holds the earlier prices
C8_Witness ==
    \E i, j \in 1..Len(calls) :
        /\ calls[i].result = "true"
        /\ calls[j].result = "false" /\ calls[j].fetches = 1
        /\ calls[j].cacheBefore = cache
        /\ cache.currentPrice # <<>> /\ cache.forecast # <<>>

\* C9: a refresh requested while another one is in flight is short-circuited
\* and starts no second fetch: at most one refresh is in flight.
C9_RefreshCoalesced == Cardinality(InFlight) <= 1

\* C10: broadcastMessage returns true exactly when at least one individual
\* send succeeded, and every configured chat id got its send attempt: a
\* failing send neither propagates nor ends the loop.
C10_BroadcastSuccess ==
    bc.made =>
        /\ bc.result <=> (\E k \in 1..Len(bc.attempts) : bc.attempts[k].outcome = "ok")
        /\ bc.configured => Len(bc.attempts) = Len(bc.chatIds)

\* C10 witness: a broadcast to two chat ids whose first send failed and whose
\* second send succeeded returned true
C10_Witness ==
    /\ bc.made
    /\ Len(bc.attempts) = 2
    /\ bc.attempts[1].outcome # "ok"
    /\ bc.attempts[2].outcome = "ok"
    /\ bc.result

\* C16: cooldowns survive restarts: when the process restarted after rule A
\* triggered at T, no evaluation before T + 60 records an event for A.
C16_CooldownSurvivesRestart ==
    [][(wChecks' = wChecks + 1 /\ CooldownRuleStored /\ "A" \in wCarried
          /\ now < wLastTrigger["A"][1] + 60)
         => ~EventOf(wReturned', "A")]_vars

\* C17: every event an evaluation returns is in the stored warning history
\* when the evaluation returns.
C17_ReturnedEventsStored ==
    \A i \in 1..Len(wReturned) : wReturned[i] \in Range(WarningHistory)

-----------------------------------------------------------------------------
(* Priority rules and price queries: properties                            *)

QueryGood == isPriceGood(<<query.price>>, query.config, emptyCache, 0)

QueryUnsafe ==
    \/ query.snap.battery_soc >= query.config.targetSoC
    \/ query.snap.grid_voltage < 200
    \/ query.snap.grid_voltage > 250

QueryStrongSolar ==
    /\ query.snap.pv_power > 2 * query.snap.load
    /\ query.snap.battery_soc < 90

\* C11: when the safety override does not apply, pv_power > 2 x load with
\* battery_soc < 90 yields START_CHARGING / "Solar only" at every price.
C11_StrongSolar ==
    (query.op = "evaluate" /\ ~QueryUnsafe /\ QueryStrongSolar)
        => query.result = [decision |-> "START_CHARGING", mode |-> "Solar only"]

\* C11 witness: strong solar surplus at battery_soc 89 (targetSoC 95) and an
\* acceptable price, answered with "Solar only"
C11_Witness ==
    /\ query.op = "evaluate"
    /\ query.snap.pv_power = 2001 /\ query.snap.battery_soc = 89
    /\ query.snap.grid_voltage = 250
    /\ query.price.level = "VERY_CHEAP"
    /\ query.result.mode = "Solar only"

\* C12: with neither the safety override nor a strong solar surplus and with
\* pv_power = 0, an acceptable price yields START_CHARGING / "Utility first"
\* and an unacceptable one STOP_CHARGING / "Solar/Battery/Utility".
C12_NoSolar ==
    (query.op = "evaluate" /\ ~QueryUnsafe /\ ~QueryStrongSolar
       /\ query.snap.pv_power = 0)
        => query.result =
             IF QueryGood
             THEN [decision |-> "START_CHARGING", mode |-> "Utility first"]
             ELSE [decision |-> "STOP_CHARGING", mode |-> "Solar/Battery/Utility"]

\* C12 witness: no solar power, battery at 40, expensive price
C12_Witness ==
    /\ query.op = "evaluate"
    /\ query.snap.pv_power = 0 /\ query.snap.battery_soc = 40
    /\ query.snap.grid_voltage = 230
    /\ query.price.level = "VERY_EXPENSIVE"
    /\ query.result = [decision |-> "STOP_CHARGING",
                       mode |-> "Solar/Battery/Utility"]

DecisionVocabulary ==
    {[decision |-> "STOP_CHARGING", mode |-> "Solar first"],
     [decision |-> "START_CHARGING", mode |-> "Solar only"],
     [decision |-> "START_CHARGING", mode |-> "Utility first"],
     [decision |-> "STOP_CHARGING", mode |-> "Solar/Battery/Utility"],
     [decision |-> "START_CHARGING", mode |-> "Solar and utility simultaneously"],
     [decision |-> "START_CHARGING", mode |-> "Solar/Utility/Battery"]}

\* C13: with neither the safety override nor a strong solar surplus and with
\* pv_power > 0, an acceptable price yields START_CHARGING / "Solar and
\* utility simultaneously", otherwise battery_soc < 50 yields START_CHARGING /
\* "Solar/Utility/Battery", otherwise STOP_CHARGING / "Solar first"; every
\* input is answered with one decision of the vocabulary.
C13_SolarAvailableAndDefault ==
    query.op = "evaluate" =>
        /\ query.result \in DecisionVocabulary
        /\ (~QueryUnsafe /\ ~QueryStrongSolar /\ query.snap.pv_power > 0)
             => query.result =
                  IF QueryGood
                  THEN [decision |-> "START_CHARGING",
                        mode |-> "Solar and utility simultaneously"]
                  ELSE IF query.snap.battery_soc < 50
                  THEN [decision |-> "START_CHARGING",
                        mode |-> "Solar/Utility/Battery"]
                  ELSE [decision |-> "STOP_CHARGING", mode |-> "Solar first"]

\* C13 witness: moderate solar power, expensive price, battery at 49
C13_Witness ==
    /\ query.op = "evaluate"
    /\ query.snap.pv_power = 2000 /\ query.snap.battery_soc = 49
    /\ query.price.level = "VERY_EXPENSIVE"
    /\ query.result = [decision |-> "START_CHARGING",
                       mode |-> "Solar/Utility/Battery"]

\* An entry of the forecast that cheapestHours may return at the time of the
\* query: strictly in the future and within the horizon
Eligible(i) ==
    /\ query.forecast[i].startsAt > query.t
    /\ query.forecast[i].startsAt <= query.t + query.hoursAhead * 60

\* (total, startsAt) of a comes before (total, startsAt) of b, or they agree
CheaperOrEarlier(aTotal, aStart, bTotal, bStart) ==
    aTotal < bTotal \/ (aTotal = bTotal /\ aStart <= bStart)

\* C19: cheapestHours(count, horizon) returns at most count entries, each
\* strictly in the future and within the horizon, ascending by total with
\* ties broken by earliest startsAt; they are the first count entries of that
\* ordering of the eligible entries; the cached forecast is left unchanged.
C19_CheapestHours ==
    query.op = "getCheapestHours" =>
        LET r == query.result
            f == query.forecast
            eligible == {i \in 1..Len(f) : Eligible(i)}
        IN  /\ Len(r) <= query.count
            /\ \A k \in 1..Len(r) :
                 /\ r[k].time > query.t
                 /\ r[k].time <= query.t + query.hoursAhead * 60
            /\ \A j, k \in 1..Len(r) :
                 j < k => CheaperOrEarlier(r[j].price, r[j].time,
                                           r[k].price, r[k].time)
            /\ Len(r) = Min(query.count, Cardinality(eligible))
            /\ \A k \in 1..Len(r) : \E i \in eligible :
                 f[i].startsAt = r[k].time /\ f[i].total = r[k].price
            /\ \A i \in eligible :
                 (\A k \in 1..Len(r) : r[k].time # f[i].startsAt)
                   => \A k \in 1..Len(r) :
                        CheaperOrEarlier(r[k].price, r[k].time,
                                         f[i].total, f[i].startsAt)
            /\ query.forecastAfter = f

\* C20: isPriceGood follows the chain level - average - threshold - false,
\* and is false when there is no price point at all.
C20_PriceGoodChain ==
    query.op = "isPriceGood" =>
        LET price == IF query.point # <<>> THEN query.point
                     ELSE query.cache.currentPrice
            avg == calculateAveragePrice(query.cache, query.t, 24)
        IN  query.result =
              IF price = <<>> THEN FALSE
              ELSE IF query.config.usePriceLevels
              THEN price[1].level \in query.config.allowedPriceLevels
              ELSE IF avg.avail
              THEN price[1].total * avg.n < avg.sum
              ELSE IF query.config.maxPriceThreshold.set
              THEN price[1].total <= query.config.maxPriceThreshold.value
              ELSE FALSE

\* C20 witness: levels off, an average of 1333 is computable and decides
\* against a point of 2000 that the threshold of 2000 would accept
C20_Witness ==
    /\ query.op = "isPriceGood"
    /\ ~query.config.usePriceLevels
    /\ query.config.maxPriceThreshold.set
    /\ query.point = <<Point(2000, "EXPENSIVE", 0)>>
    /\ query.cache.forecast = HourlyForecast
    /\ query.t = 60
    /\ ~query.result

\* C21: with usePriceLevels = true, two price points of the same level get
\* the same answer from isPriceGood, whatever their totals, the forecasts
\* and the maxPriceThreshold values are.
C21_LevelOnly ==
    (query.op = "isPriceGoodPair" /\ query.config.usePriceLevels)
        => query.resultA = query.resultB

\* C21 witness: two CHEAP points of 1000 and 3000, one with no forecast and
\* no threshold, the other with a forecast and a threshold of 2000, both
\* accepted
C21_Witness ==
    /\ query.op = "isPriceGoodPair"
    /\ query.config.usePriceLevels
    /\ query.pointA = <<Point(1000, "CHEAP", 0)>>
    /\ query.pointB = <<Point(3000, "CHEAP", 0)>>
    /\ query.cacheA = emptyCache /\ query.cacheB # emptyCache
    /\ ~query.thresholdA.set /\ query.thresholdB.set
    /\ query.resultA /\ query.resultB

RECURSIVE SumTotalsAt(_, _)
\* Sum of total over the entries of f at the indices in S
SumTotalsAt(f, S) ==
    IF S = {} THEN 0
    ELSE LET i == CHOOSE j \in S : TRUE
         IN  f[i].total + SumTotalsAt(f, S \ {i})

\* C22: averagePrice(hours) is the mean of total over the first `hours`
\* forecast entries whose startsAt is strictly after now; it is unavailable
\* when there is no such entry; an entry starting at now is not counted.
C22_AveragePrice ==
    query.op = "calculateAveragePrice" =>
        LET f == query.forecast
            future == {i \in 1..Len(f) : f[i].startsAt > query.t}
            chosen == {i \in future :
                         Cardinality({j \in future : j < i}) < query.hours}
        IN  IF chosen = {} THEN ~query.result.avail
            ELSE /\ query.result.avail
                 /\ query.result.n = Cardinality(chosen)
                 /\ query.result.sum = SumTotalsAt(f, chosen)

\* C22 witness: at minute 60 the entry starting at 60 is left out and the
\* next two entries give a mean of (1000 + 1000) / 2
C22_Witness ==
    /\ query.op = "calculateAveragePrice"
    /\ query.forecast = HourlyForecast
    /\ query.t = 60 /\ query.hours = 2
    /\ query.result = [avail |-> TRUE, sum |-> 2000, n |-> 2]

\* C29: a rule without any history entry of its id is never on cooldown, and
\* a rule id that resolves to no stored rule is always on cooldown, whatever
\* the history holds.
C29_CooldownEdgeCases ==
    query.op = "isWarningOnCooldown" =>
        LET stored == \E i \in 1..Len(query.types) : query.types[i].id = query.id
            triggered == \E i \in 1..Len(query.history) :
                            query.history[i].warningTypeId = query.id
        IN  /\ ~stored => query.result
            /\ (stored /\ ~triggered) => ~query.result

\* C29 witness: rule id "C" is not stored, its only history entry is 61
\* minutes old, and it is reported as on cooldown
C29_Witness ==
    /\ query.op = "isWarningOnCooldown"
    /\ query.id = "C"
    /\ query.types = <<CooldownRule, OtherRule>>
    /\ query.history = <<[warningTypeId |-> "C", timestamp |-> 1020,
                          value |-> <<10>>]>>
    /\ query.t = 1081
    /\ query.result

\* C30: a rule with timeCondition = daytime yields no event when the local
\* hour is outside [8,18).
C30_DaytimeWindow ==
    query.op = "checkWarnings" =>
        \A i \in 1..Len(query.result) :
            \A k \in 1..Len(query.types) :
                (/\ query.types[k].id = query.result[i].warningTypeId
                 /\ query.types[k].timeCondition = "daytime")
                    => (HourOf(query.t) >= 8 /\ HourOf(query.t) < 18)

ConditionOperators == {"lt", "gt", "eq", "lte", "gte"}

\* The comparison a rule's operator names, of value against threshold
ComparisonHolds(condition, value, threshold) ==
    \/ condition = "lt" /\ value < threshold
    \/ condition = "gt" /\ value > threshold
    \/ condition = "eq" /\ value = threshold
    \/ condition = "lte" /\ (value < threshold \/ value = threshold)
    \/ condition = "gte" /\ (value > threshold \/ value = threshold)

\* The evaluated rule is past the cooldown of every earlier event of its id
EvaluatedOffCooldown ==
    \A i \in 1..Len(query.history) :
        query.history[i].warningTypeId = query.rule.id
            => query.t - query.history[i].timestamp >= query.rule.cooldownMinutes

\* The evaluated rule has no time window or the hour is in [8,18)
EvaluatedInWindow ==
    \/ query.rule.timeCondition # "daytime"
    \/ HourOf(query.t) >= 8 /\ HourOf(query.t) < 18

\* C31: with the monitor switched on, an enabled rule that is off cooldown
\* and inside its time window yields an event exactly when the snapshot
\* value of its parameter is present (0 counts as present) and its
\* comparison lt, gt, eq, lte or gte of value against threshold holds; a
\* rule with any other operator yields no event.
C31_EventIffConditionHolds ==
    (/\ query.op = "evaluate" /\ query.monitorEnabled
     /\ query.rule.enabled /\ EvaluatedOffCooldown /\ EvaluatedInWindow)
        => LET value == query.systemState[query.rule.parameter]
           IN  /\ (query.result # <<>>)
                     <=> (/\ value # <<>>
                          /\ ComparisonHolds(query.rule.condition, value[1],
                                             query.rule.threshold.num))
               /\ query.rule.condition \notin ConditionOperators
                     => query.result = <<>>
               /\ \A i \in 1..Len(query.result) :
                     /\ query.result[i].warningTypeId = query.rule.id
                     /\ query.result[i].value = value

\* C31 witness: battery_soc is 0, the rule is "lt 15", and an event is
\* returned
C31_Witness ==
    /\ query.op = "evaluate" /\ query.monitorEnabled
    /\ query.rule = CooldownRule /\ query.history = <<>>
    /\ query.systemState.battery_soc = <<0>>
    /\ Len(query.result) = 1

\* C32: while the monitor is switched off, an evaluation returns no event
\* and leaves the history as it was, also when an enabled rule's condition
\* is met.
C32_DisabledMonitorIsSilent ==
    (query.op = "evaluate" /\ ~query.monitorEnabled)
        => /\ query.result = <<>>
           /\ query.historyAfter = query.history

\* C32 witness: monitor off, rule "lt 15" enabled and off cooldown,
\* battery_soc 0, and nothing is returned or stored
C32_Witness ==
    /\ query.op = "evaluate" /\ ~query.monitorEnabled
    /\ query.rule = CooldownRule /\ query.history = <<>>
    /\ query.systemState.battery_soc = <<0>>
    /\ query.result = <<>> /\ query.historyAfter = <<>>

\* A rule request with an unknown operator, a threshold that is not a
\* number, or a required field missing
MalformedRule(body) ==
    \/ body.condition \notin ConditionOperators
    \/ body.threshold.kind # "number"
    \/ body.name = "" \/ body.parameter = ""

\* A chat id that is not a decimal integer with an optional minus sign
MalformedChatId(chars) ==
    \/ chars = <<>>
    \/ chars = <<"-">>
    \/ \E i \in 1..Len(chars) :
          chars[i] \notin Digits /\ ~(i = 1 /\ chars[i] = "-")

\* C23: a malformed rule or chat id is rejected and never stored: after the
\* rejected request the stored rule list and chat id list are unchanged.
C23_MalformedRejected ==
    /\ (query.op = "POST /warnings/types" /\ MalformedRule(query.body))
          => /\ query.status = 400
             /\ warn_getConfig(WarnStore).warningTypes = query.typesBefore
    /\ (query.op = "POST /telegram/chat-ids" /\ MalformedChatId(query.body.chatId))
          => /\ query.status = 400
             /\ tgConfig.chatIds = query.chatIdsBefore

\* C24: a rule created without an enabled value is stored disabled, and
\* every event an evaluation returns belongs to a stored rule whose enabled
\* field is true.
C24_DisabledByDefault ==
    LET types == warn_getConfig(WarnStore).warningTypes
    IN  /\ (query.op = "POST /warnings/types" /\ query.status = 200
              /\ query.body.enabled = <<>>)
             => \E i \in 1..Len(types) :
                   types[i].id = query.id /\ types[i].enabled = FALSE
        /\ \A k \in 1..Len(wReturned) :
              \E i \in 1..Len(types) :
                 types[i].id = wReturned[k].warningTypeId
                   /\ types[i].enabled = TRUE

\* C24 witness: the only stored rule was created without an enabled value,
\* and an evaluation with battery_soc 10 < 15 returned no event
C24_Witness ==
    /\ query.op = "POST /warnings/types" /\ query.status = 200
    /\ query.body.enabled = <<>> /\ query.body.parameter = "battery_soc"
    /\ Len(warn_getConfig(WarnStore).warningTypes) = 1
    /\ wChecks > 0
    /\ wSnapshot.battery_soc = <<10>>
    /\ wReturned = <<>>

C26_CorruptedDocumentsBackedUp ==
    (query.op = "getConfig" /\ query.before.content.kind = "corrupt") =>
        /\ \E b \in query.after.backups :
              b.payload = query.before.content.payload
        /\ query.after.content = FileJson("defaults")

\* C27: when a refresh ends because the price API rejected the credentials,
\* the status reports configured = false, the caller is told of the failure,
\* and no further request was sent for that refresh.
C27_AuthMarksUnconfigured ==
    [][\A i \in 1..Len(calls) :
         (/\ calls[i].pc = "fetching"
          /\ calls'[i].pc = "done"
          /\ calls'[i].response = "auth")
            => /\ ~getStatus(tConfig', cache').configured
               /\ calls'[i].result = "false"
               /\ calls'[i].fetches = 1]_vars

\* C33: when the durable store is absent, does not answer the ping, or
\* throws while the cache is saved, the refresh still returns true and the
\* cache holds the current price and forecast a refresh fetched.
C33_StoreFailureDoesNotFailRefresh ==
    [][\A i \in 1..Len(calls) :
         (/\ calls[i].pc = "saving"
          /\ calls'[i].pc = "done"
          /\ calls'[i].store # "ok")
            => /\ calls'[i].result = "true"
               /\ cache' = cache
               /\ \E j \in 1..Len(calls) : calls[j].fetched = <<cache'>>
               /\ cache'.currentPrice # <<>>]_vars

\* C33 witness: a refresh has returned true after its save failed, and the
\* cache holds what that refresh fetched
C33_Witness ==
    \E i \in 1..Len(calls) :
        /\ calls[i].pc = "done" /\ calls[i].store = "failed"
        /\ calls[i].result = "true"
        /\ calls[i].fetched = <<cache>>
        /\ cache # calls[i].cacheBefore

\* C34: a call of refreshData sends no request when the feature is disabled
\* or the API key is empty or the placeholder, exactly one request
\* otherwise, and never a second one after a timeout or an error.
C34_AtMostOneFetch ==
    \A i \in 1..Len(calls) :
        LET none == \/ ~calls[i].seen.enabled
                    \/ calls[i].seen.apiKey \in {"", "***"}
        IN  /\ calls[i].fetches <= 1
            /\ none => calls[i].fetches = 0 /\ calls[i].pc = "done"
            /\ ~none => calls[i].fetches = 1

\* C34 witness: a refresh whose request failed on the network has returned
\* false after one request
C34_Witness ==
    \E i \in 1..Len(calls) :
        /\ calls[i].pc = "done" /\ calls[i].response = "network"
        /\ calls[i].result = "false" /\ calls[i].fetches = 1

\* C37: when a refresh has returned true while the start-up restore was
\* waiting for the durable store, and the cache holds what that refresh
\* fetched, the cache is the same after the restore has finished.
C37_RestoreKeepsRefreshedCache ==
    [][(/\ restoring # <<>>
        /\ restoring' = <<>>
        /\ \E i \in 1..Len(calls) :
              /\ i \notin restoring[1].doneAtStart
              /\ calls[i].pc = "done" /\ calls[i].result = "true"
              /\ calls[i].fetched = <<cache>>)
          => cache' = cache]_vars

\* C38: an update whose apiKey is empty, "***" or "******" leaves the stored
\* key as it was, every other field given in the update is stored, and after
\* any sequence of updates the stored key is the last submitted key that was
\* neither empty nor a mask (the initial key when there was none).
C38_MaskedKeyKeepsStoredKey ==
    query.op = "updateConfig" =>
        LET u == query.newConfig
        IN  /\ (u.apiKey \in {<<>>, <<"">>, <<"***">>, <<"******">>})
                  => tConfig.apiKey = query.before.apiKey
            /\ tConfig.enabled = IF u.enabled = <<>> THEN query.before.enabled
                                 ELSE u.enabled[1]
            /\ tConfig.homeId = IF u.homeId = <<>> THEN query.before.homeId
                                ELSE u.homeId[1]
            /\ tConfig.apiKey = IF query.lastRealKey = <<>>
                                THEN defaultConfig.apiKey
                                ELSE query.lastRealKey[1]

\* C38 witness: "key-1" is stored, an update with the six-star mask enables
\* the feature and sets the home, and "key-1" is still stored
C38_Witness ==
    /\ query.op = "updateConfig"
    /\ query.newConfig = [enabled |-> <<TRUE>>, apiKey |-> <<"******">>,
                          homeId |-> <<"home-1">>]
    /\ query.before.apiKey = "key-1" /\ ~query.before.enabled
    /\ tConfig.apiKey = "key-1" /\ tConfig.enabled /\ tConfig.homeId = "home-1"

\* C35: in a broadcast that gets past the configuration test, every
\* configured chat id receives exactly one send attempt, in the configured
\* order, whichever sends fail or time out.
C35_OneAttemptPerSink ==
    (bc.made /\ bc.configured) =>
        /\ Len(bc.attempts) = Len(bc.chatIds)
        /\ \A k \in 1..Len(bc.chatIds) :
              Cardinality({j \in 1..Len(bc.attempts) :
                             bc.attempts[j].chatId = bc.chatIds[k]}) = 1

\* C35 witness: two chat ids, the first send timed out, the second was
\* attempted and succeeded
C35_Witness ==
    /\ bc.made /\ bc.configured
    /\ Len(bc.chatIds) = 2 /\ Len(bc.attempts) = 2
    /\ bc.attempts[1].outcome = "timeout"
    /\ bc.attempts[2].outcome = "ok"
    /\ bc.attempts[2].chatId = bc.chatIds[2]

\* C36: a warning event or a rule trigger is forwarded only if notifications
\* are enabled and some rule is enabled, has the type of the event (warning
\* or rule) and names the event's warning type or rule id.
C36_ForwardedOnlyWithMatchingRule ==
    (query.op = "shouldNotify" /\ query.result) =>
        /\ query.enabled
        /\ \E i \in 1..Len(query.rules) :
              /\ query.rules[i].enabled
              /\ query.rules[i].type = query.kind
              /\ (IF query.kind = "warning" THEN query.rules[i].warningType
                   ELSE query.rules[i].ruleId) = query.id

\* C36 witness: notifications are enabled, a disabled warning rule for "A"
\* is followed by an enabled rule of type rule for rule id "A", and a trigger
\* of rule "A" is forwarded
C36_Witness ==
    /\ query.op = "shouldNotify" /\ query.enabled
    /\ query.kind = "rule" /\ query.id = "A"
    /\ query.rules = <<[enabled |-> FALSE, type |-> "warning",
                        warningType |-> "A", ruleId |-> ""],
                       [enabled |-> TRUE, type |-> "rule",
                        warningType |-> "", ruleId |-> "A"]>>
    /\ query.result

\* C39: a bot token is stored only by a request whose token test succeeded;
\* a request whose token fails the test is answered with an error and leaves
\* the stored token and enabled flag as they were.
C39_TokenStoredOnlyAfterTest ==
    query.op = "POST /telegram/config" =>
        /\ (query.tested /\ ~query.testOk)
              => (query.status = 400 /\ tgConfig = query.before)
        /\ tgConfig.botToken # query.before.botToken
              => /\ query.tested /\ query.testOk
                 /\ tgConfig.botToken = query.body.botToken[1]

\* C39 witness: "token-1" is stored and enabled, the request submits
\* "token-2" with enabled false, the test fails, and the answer is 400
C39_Witness ==
    /\ query.op = "POST /telegram/config"
    /\ query.before.botToken = "token-1" /\ query.before.enabled
    /\ query.body = [enabled |-> <<FALSE>>, botToken |-> <<"token-2">>]
    /\ ~query.testOk /\ query.status = 400
    /\ tgConfig.botToken = "token-1" /\ tgConfig.enabled

\* C40: whenever the stored config cannot be read, the config the monitor
\* falls back to has no rules and an empty history, whatever was added
\* earlier to a fallback config.
C40_FallbackDefaultsStayEmpty ==
    ~wFileOk => /\ warn_getConfig(WarnStore).warningTypes = <<>>
                /\ warn_getConfig(WarnStore).warningHistory = <<>>

\* C28: the price cache changes only in a step of its owner (a refresh
\* receiving its response, or the start-up restore), whatever a caller does
\* with the value a read accessor returned.
C28_CacheOwnedByProvider ==
    [][cache' # cache
         => \/ \E i \in 1..Len(calls) :
                  calls[i].pc = "fetching" /\ calls'[i].pc # "fetching"
            \/ influxCacheLoaded' # influxCacheLoaded]_vars

\* C18: in every price cache the forecast is strictly ascending by startsAt
\* (so no two entries share a startsAt), after any sequence of successful
\* refreshes, failed refreshes and cache restores.
C18_ForecastStrictlyAscending ==
    \A i \in 1..(Len(cache.forecast) - 1) :
        cache.forecast[i].startsAt < cache.forecast[i + 1].startsAt

-----------------------------------------------------------------------------
(* CommandPublisher: properties                                            *)

\* The parameters commanded for inverter k in the last hand-over
ParametersOf(k) ==
    {published.commands[i].parameter :
        i \in {j \in 1..Len(published.commands) :
                 published.commands[j].inverter = k}}

CommandCountOf(k) ==
    Cardinality({j \in 1..Len(published.commands) :
                   published.commands[j].inverter = k})

C15_FailureDoesNotBlockOthers ==
    published.made =>
        /\ \A k \in 1..Len(published.types) : CommandCountOf(k) > 0
        /\ published.failures =
             {k \in 1..Len(published.types) : published.outcomes[k] # "ok"}
        /\ \A i \in 1..Len(published.commands) :
             published.commands[i].success
               <=> published.outcomes[published.commands[i].inverter] = "ok"

\* C15 witness: two inverters, the publish to the first one failed, the
\* commands of the second one were handed over and succeeded
C15_Witness ==
    /\ published.made
    /\ published.types = <<"modern", "legacy">>
    /\ published.outcomes = <<"failed", "ok">>
    /\ published.failures = {1}
    /\ \E i \in 1..Len(published.commands) :
         published.commands[i].inverter = 2 /\ published.commands[i].success

-----------------------------------------------------------------------------
(* Specifications                                                          *)

Init ==
    /\ EngineInit /\ WarnInit /\ PriceInit /\ TelegramInit
    /\ PublisherInit /\ QueryInit

SpecEvaluate == Init /\ [][EvaluateNext]_vars

SpecPriceQuery == Init /\ [][PriceQueryNext]_vars

SpecPublisher == Init /\ [][PublisherNext]_vars

SpecEngine == Init /\ [][EngineNext]_vars

SpecPrice == Init /\ [][PriceNext]_vars

SpecPriceReader == Init /\ [][PriceReaderNext]_vars

SpecPriceConfig == Init /\ [][PriceConfigNext]_vars

SpecPriceFaulty == Init /\ [][PriceFaultyNext]_vars

SpecPriceRestore == Init /\ [][PriceRestoreNext]_vars

SpecPriceStore == Init /\ [][PriceStoreNext]_vars

SpecTelegramConfig == Init /\ [][TelegramConfigNext]_vars

SpecNotify == Init /\ [][NotifyNext]_vars

SpecTelegram == Init /\ [][TelegramNext]_vars

SpecStorage == Init /\ [][StorageNext]_vars

SpecValidation == Init /\ [][ValidationNext]_vars

SpecWarnCreate == Init /\ [][WarnCreateNext]_vars

SpecWarnEvaluate == Init /\ [][WarnEvaluateNext]_vars

SpecWarnQuery == Init /\ [][WarnQueryNext]_vars

SpecWarnHealthy == Init /\ [][WarnNextHealthy]_vars

SpecWarnRestart == Init /\ [][WarnNextRestart]_vars

SpecWarnCorrupt == Init /\ [][WarnNextCorrupt]_vars

SpecWarnDisk == Init /\ [][WarnNextDisk]_vars

SpecWarn == Init /\ [][WarnNext]_vars

Next ==
    \/ EngineNext \/ WarnNext \/ PriceStoreNext \/ TelegramNext
    \/ PublisherNext \/ EvaluateNext \/ PriceQueryNext \/ WarnQueryNext
    \/ ValidationNext \/ WarnCreateNext \/ StorageNext \/ PriceReaderNext
    \/ WarnEvaluateNext \/ PriceFaultyNext \/ PriceRestoreNext
    \/ PriceConfigNext \/ TelegramConfigNext \/ NotifyNext

Spec == Init /\ [][Next]_vars

====
